---- MODULE Spec2Model ----
(***************************************************************************)
(* A model of the DICOM image viewer (Muhannad159/Dicom-Image-Viewer).     *)
(*                                                                         *)
(*   FileUpload.tsx  handleFileUpload / handleFolderUpload: filter the     *)
(*                   picked files, group them, classify the upload.        *)
(*   Viewer.tsx      the fileData-based Viewer: processFiles assembles the *)
(*                   series list, React effects set up the rendering       *)
(*                   engine and load the current image, handlers navigate. *)
(*   Trial.tsx       processDicomFiles / handleSeriesClick.                *)
(*                                                                         *)
(* Strings the code builds by concatenation are modelled as tuples of      *)
(* their parts: `Series_${n}` is <<"Series_", n>>, a folder or file name   *)
(* "A" is <<"A", 0>>.  A relative path is the sequence of its segments     *)
(* (what split("/") returns).                                              *)
(***************************************************************************)
EXTENDS Integers, Sequences, FiniteSets, Bags, TLC

VARIABLES
    \* ---- FileUpload.tsx ----
    picked,            \* the File[] the last upload handler was called with
    uploadCall,        \* which handler ran last: "none" | "file" | "folder"
    fileData,          \* what setFiles received: the Viewer's props, or NoFileData
    uploadConsole      \* the text of the last console.warn of FileUpload, or ""

uploadVars == <<picked, uploadCall, fileData, uploadConsole>>

VARIABLES
    \* ---- Viewer.tsx (fileData-based Viewer): React state ----
    currentIndex,        \* useState(0), 0-based
    seriesList,          \* useState<Series[]>([])
    selectedSeriesUID,   \* useState<string | null>(null); NoUID is null
    error,               \* useState<string | null>(null); NoError is null
    metadata,            \* useState<any>(null); NoMetadata is null
    activeTool,          \* useState(WindowLevelTool.toolName)
    isWadoInitialized,   \* useState(false)
    isViewportReady,     \* useState(false)
    \* ---- refs and what they refer to ----
    renderingEngineRef,  \* TRUE: refers to a rendering engine; FALSE: null
    isViewportEnabled,   \* isViewportEnabled.current
    toolGroupRef,        \* TRUE: toolGroupRef.current is set
    metadataMapRef,      \* metadataMapRef.current: image id -> record
    setupCleanup,        \* the setup effect's last run returned its cleanup
    enginesAlive,        \* RenderingEngine instances created and not destroyed
    stack,               \* what the live viewport shows: setStack + render
    toolModes,           \* the tool group of ToolGroupManager: tool -> mode
    objectURLs,          \* the URLs of URL.createObjectURL not yet revoked
    viewerMounted,       \* the component is mounted
    \* ---- asynchronous operations that have started and not ended ----
    initPhase,           \* initializeCore: "pending" | "done" | "failed"
    procPhase,           \* processFiles: "pending" | "done" | "threw"
    loads,               \* the updateStack calls suspended at an await: a bag
    restore              \* the active-tool effect's setStack(..).then(render)

viewerVars == <<currentIndex, seriesList, selectedSeriesUID, error, metadata,
                activeTool, isWadoInitialized, isViewportReady,
                renderingEngineRef, isViewportEnabled, toolGroupRef,
                metadataMapRef, setupCleanup, enginesAlive,
                stack, toolModes, objectURLs, viewerMounted,
                initPhase, procPhase, loads, restore>>

VARIABLES
    \* ---- Trial.tsx ----
    groupedSeries,       \* useState<Record<string, Series>>({}), in key order
    trialStack,          \* useState stack: imageIds and currentImageIndex
    selectedSeriesKey,   \* useState<string | null>(null); NoUID is null
    blobUrlsRef,         \* blobUrlsRef.current: the blob URLs created
    consoleWarnings,     \* the file names console.warn was called with
    trialPhase,          \* handleFolderUpload: "pending" | "done"
    trialToolModes,      \* the tool group of Trial: tool -> mode
    trialActiveTool,     \* useState<string>("Pan")
    trialObjectURLs,     \* the URLs Trial created that are not yet revoked
    trialMounted         \* the component is mounted

trialVars == <<groupedSeries, trialStack, selectedSeriesKey, blobUrlsRef,
               consoleWarnings, trialPhase, trialToolModes, trialActiveTool,
               trialObjectURLs, trialMounted>>

VARIABLES
    \* ---- Viewer.tsx: the window of one displayed image ----
    imageRecord,         \* the metadata record of the image on display
    voi,                 \* what the fileData-based Viewer applied, or NoVoi
    voiFiles             \* what the files-based Viewer applied, or NoVoi

windowVars == <<imageRecord, voi, voiFiles>>

VARIABLES
    \* ---- Trial.tsx, the single-file Trial (lines 943-1444) ----
    singleMounted,       \* the component is mounted
    singleInit,          \* initializeCornerstone: "pending" | "done" | "failed"
    singleEngineRef,     \* renderingEngineRef.current: "null" | "alive" | "destroyed"
    singleEnginesAlive,  \* RenderingEngine instances created and not destroyed
    singlePending,       \* loadImageWithProgress promises not yet settled
    singleError,         \* useState error: TRUE when it is set
    singleUploads,       \* the handleFileUpload calls so far
    singleLate,          \* the setStack calls whose promise the timer has
                         \* rejected: those still pending, those settled since
    singleRenders        \* loads that went on to viewport.render()

singleVars == <<singleMounted, singleInit, singleEngineRef, singleEnginesAlive,
                singlePending, singleError, singleUploads, singleLate,
                singleRenders>>

VARIABLES
    \* ---- the clock of the wheel throttles ----
    sinceScroll,         \* Viewer: Date.now() - lastScrollTime.current, in ms,
                         \* counted up to ScrollThrottleMs
    trialSinceScroll     \* Trial: the same, counted up to TrialScrollThrottleMs

clockVars == <<sinceScroll, trialSinceScroll>>

VARIABLES
    \* ---- what the Viewer hands to the browser ----
    download             \* the file of the last link.click() of exportImage

exportVars == <<download>>

VARIABLES
    \* ---- Viewer.tsx: the geometry of one image and of its viewport ----
    pixelTags,           \* (0028,0010), (0028,0011), (0028,0100) of the file,
                         \* as dataset.uint16 returns them
    pixelModule,         \* imagePixelModule as the fileData-based Viewer
                         \* stores it, or NoPixelModule
    pixelModuleFiles,    \* imagePixelModule as the files-based Viewer
                         \* stores it, or NoPixelModule
    container,           \* containerRef.current: clientWidth, clientHeight
    element,             \* viewportRef.current: style.width, style.height
    canvas,              \* viewport.getCanvas(): width, height
    viewportZoom,        \* viewport.getZoom() * 100
    zoomLevel            \* useState<number>(100)

geometryVars == <<pixelTags, pixelModule, pixelModuleFiles, container, element,
                  canvas, viewportZoom, zoomLevel>>

VARIABLES
    \* ---- Trial.tsx: the automatic window of loadDicomImage ----
    scalarData,          \* image.getScalarData(), as the bag of its values
    seriesModality,      \* currentSeries?.modality, or NoModality
    viewportWindow,      \* what viewport.setProperties was given
    windowLevel          \* useState({ width, center })

autoVars == <<scalarData, seriesModality, viewportWindow, windowLevel>>

vars == <<uploadVars, viewerVars, trialVars, windowVars, singleVars, clockVars,
          exportVars, geometryVars, autoVars>>

\* ------------------------------------------------------------------ bounds

\* Longest list of files one upload hands to a handler.
MaxPicked == 2

\* Most updateStack calls suspended at one time.
MaxPending == 2

\* Most files of a batch that processFiles assembles.
MaxBatch == 3

\* Largest instance number of a file of such a batch.
MaxInstance == 3

\* Most files of the folder a Viewer session shows.
MaxSession == 2

\* Most files a user hands to the single-file Trial, one after the other.
MaxUploads == 2

\* Images of the series a navigation session shows.
NavImages == 3

\* ------------------------------------------------------------------ values

Str(s) == <<s, 0>>

NoFileData == [files |-> <<>>, uploadType |-> "none", seriesGroups |-> <<>>]

\* file.name.toLowerCase()
ToLowerCase(ext) == IF ext = "DCM" THEN "dcm" ELSE ext

\* file.name.toLowerCase().endsWith(".dcm")
IsDcm(file) == ToLowerCase(file.ext) = "dcm"

RECURSIVE FilterDcm(_)
FilterDcm(files) ==
    IF files = <<>> THEN <<>>
    ELSE IF IsDcm(Head(files))
         THEN <<Head(files)>> \o FilterDcm(Tail(files))
         ELSE FilterDcm(Tail(files))

\* file.webkitRelativePath ? file.webkitRelativePath.split("/") : [file.name]
PathParts(file) ==
    IF file.path # <<>> THEN file.path ELSE <<Str(file.stem)>>

\* Index of the group with this key in a Map kept in insertion order, 0 if none.
GroupIndex(groups, key) ==
    IF \E i \in 1..Len(groups) : groups[i].key = key
    THEN CHOOSE i \in 1..Len(groups) : groups[i].key = key
    ELSE 0

\* Mutant: a file replaces the files its group holds.
PushToGroup_Replace(groups, key, file) ==
    LET i == GroupIndex(groups, key) IN
    IF i = 0
    THEN Append(groups, [key |-> key, files |-> <<file>>])
    ELSE [groups EXCEPT ![i].files = <<file>>]

\* seriesGroups.get(key).push(file), creating the group when it is new
PushToGroup(groups, key, file) ==
    LET i == GroupIndex(groups, key) IN
    IF i = 0
    THEN Append(groups, [key |-> key, files |-> <<file>>])
    ELSE [groups EXCEPT ![i].files = Append(@, file)]

\* parentFolder of one file, given the groups built so far
ParentFolder(file, groups) ==
    LET pathParts == PathParts(file) IN
    IF Len(pathParts) > 1
    THEN pathParts[Len(pathParts) - 1]
    ELSE <<"Series_", Len(groups) + 1>>

\* The forEach of handleFolderUpload: acc = [groups, folders].
RECURSIVE FolderGrouping(_, _)
FolderGrouping(files, acc) ==
    IF files = <<>> THEN acc
    ELSE LET parentFolder == ParentFolder(Head(files), acc.groups) IN
         FolderGrouping(Tail(files),
            [groups  |-> PushToGroup(acc.groups, parentFolder, Head(files)),
             folders |-> acc.folders \cup {parentFolder}])

\* f.webkitRelativePath && f.webkitRelativePath.split("/").length > 2
DeepPath(file) == file.path # <<>> /\ Len(file.path) > 2

\* Mutant: the depth test compares with 3 instead of 2.
FolderUploadType_DepthOff(filteredFiles, folders) ==
    IF Cardinality(folders) > 1
       \/ \E i \in 1..Len(filteredFiles) :
             filteredFiles[i].path # <<>> /\ Len(filteredFiles[i].path) > 3
    THEN "study"
    ELSE "series"

\* uploadType of handleFolderUpload
FolderUploadType(filteredFiles, folders) ==
    IF Cardinality(folders) > 1
       \/ \E i \in 1..Len(filteredFiles) : DeepPath(filteredFiles[i])
    THEN "study"
    ELSE "series"

\* Mutant: the upload type is decided from the folder of the first file.
FolderUploadData_FirstFolder(filteredFiles) ==
    LET g == FolderGrouping(filteredFiles, [groups |-> <<>>, folders |-> {}]) IN
    [files        |-> filteredFiles,
     uploadType   |-> FolderUploadType(filteredFiles, {g.groups[1].key}),
     seriesGroups |-> g.groups]

\* What handleFolderUpload passes to setFiles for a non-empty filtered list.
FolderUploadData(filteredFiles) ==
    LET g == FolderGrouping(filteredFiles, [groups |-> <<>>, folders |-> {}]) IN
    [files        |-> filteredFiles,
     uploadType   |-> FolderUploadType(filteredFiles, g.folders),
     seriesGroups |-> g.groups]

\* file.name
FileName(file) == <<file.stem, file.ext>>

\* seriesGroups.set(key, [file]): replaces the value of a key already present
SetGroup(groups, key, file) ==
    LET i == GroupIndex(groups, key) IN
    IF i = 0
    THEN Append(groups, [key |-> key, files |-> <<file>>])
    ELSE [groups EXCEPT ![i].files = <<file>>]

\* filteredFiles.forEach((file, index) => seriesGroups.set(`${file.name}_${index}`, [file]))
RECURSIVE MultipleGrouping(_, _, _)
MultipleGrouping(files, index, groups) ==
    IF files = <<>> THEN groups
    ELSE MultipleGrouping(Tail(files), index + 1,
            SetGroup(groups, FileName(Head(files)) \o <<"_", index>>, Head(files)))

\* Mutant: the key of a file of several is its name alone, without the index.
FileUploadData_NameKeys(filteredFiles) ==
    LET g[k \in 0..Len(filteredFiles)] ==
            IF k = 0 THEN <<>>
            ELSE SetGroup(g[k - 1], FileName(filteredFiles[k]), filteredFiles[k])
    IN  [files        |-> filteredFiles,
         uploadType   |-> IF Len(filteredFiles) = 1 THEN "single" ELSE "multiple",
         seriesGroups |-> g[Len(filteredFiles)]]

\* What handleFileUpload passes to setFiles for a non-empty filtered list.
FileUploadData(filteredFiles) ==
    IF Len(filteredFiles) = 1
    THEN [files        |-> filteredFiles,
          uploadType   |-> "single",
          seriesGroups |-> SetGroup(<<>>, FileName(filteredFiles[1]), filteredFiles[1])]
    ELSE [files        |-> filteredFiles,
          uploadType   |-> "multiple",
          seriesGroups |-> MultipleGrouping(filteredFiles, 0, <<>>)]

\* ------------------------------------------------------------------ Viewer values

NoUID == <<>>

NoError == [msg |-> "", files |-> <<>>]

Err(msg) == [msg |-> msg, files |-> <<>>]

\* errors.join("\n"): one "Failed to process ${file.name}: ..." line per file
FailedToProcess(names) == [msg |-> "Failed to process", files |-> names]

NoMetadata == [imageId |-> 0, instanceNumber |-> 0]

NoStack == [imageIds |-> <<>>, index |-> 0]

\* ToolGroupManager has no tool group of the id.
NoToolGroup == <<>>

\* seriesList.find((s) => s.seriesInstanceUID === uid): its position, 0 if none
FindSeries(list, uid) ==
    IF \E i \in 1..Len(list) : list[i].seriesInstanceUID = uid
    THEN CHOOSE i \in 1..Len(list) :
            /\ list[i].seriesInstanceUID = uid
            /\ \A j \in 1..(i - 1) : list[j].seriesInstanceUID # uid
    ELSE 0

\* ------------------------------------------------------------------ processFiles

\* series.thumbnail is undefined.
NoThumbnail == "none"

\* generateThumbnail of the Viewer (Viewer.tsx 1210-1268, 126-168) for a
\* series whose thumbnail is thumbnail: the data URL of the scaled image; when
\* loadAndCacheImage rejects, or there is no pixel data, the catch (or the
\* return) leaves the series as it is.
GenerateThumbnail(thumbnail, file) ==
    IF file.pix THEN "image" ELSE thumbnail

\* Mutant: the catch of the per-file try is gone, the first failing file
\* ends the loop over the group's files.
ProcessOneFile_NoCatch(acc, file, groupKey) ==
    IF acc.aborted \/ ~file.ok
    THEN [acc EXCEPT !.aborted = TRUE]
    ELSE LET imageId == Len(acc.map) + 1 IN
         [acc EXCEPT
            !.map = Append(@, [seriesInstanceUID |-> groupKey,
                               instanceNumber    |-> file.inst,
                               fileName          |-> FileName(file),
                               pix               |-> file.pix]),
            !.imageIds = Append(@, imageId),
            !.thumbnail = IF Len(acc.imageIds) = 0
                          THEN GenerateThumbnail(@, file)
                          ELSE @]

\* The body of the loop over a group's files (try .. catch): a file that
\* parses gets an object URL (the image id: the number of the URL created),
\* a metadata record and a place at the end of the series, and the first
\* image of a series is passed to generateThumbnail, which does not throw; a
\* file whose parsing throws is recorded in errors with its name.
ProcessOneFile(acc, file, groupKey) ==
    IF ~file.ok
    THEN [acc EXCEPT !.errors = Append(@, FileName(file))]
    ELSE LET imageId == Len(acc.map) + 1 IN
         [acc EXCEPT
            !.map = Append(@, [seriesInstanceUID |-> groupKey,
                               instanceNumber    |-> file.inst,
                               fileName          |-> FileName(file),
                               pix               |-> file.pix]),
            !.imageIds = Append(@, imageId),
            !.thumbnail = IF Len(acc.imageIds) = 0
                          THEN GenerateThumbnail(@, file)
                          ELSE @]

RECURSIVE ProcessGroupFiles(_, _, _)
ProcessGroupFiles(acc, files, groupKey) ==
    IF files = <<>> THEN acc
    ELSE ProcessGroupFiles(ProcessOneFile(acc, Head(files), groupKey),
                           Tail(files), groupKey)

\* Mutant: the group is stored whether or not a file of it was parsed.
StoreSeries_Always(seriesMap, series) == Append(seriesMap, series)

\* if (series.imageIds.length > 0) seriesMap.set(seriesInstanceUID, series)
StoreSeries(seriesMap, series) ==
    IF Len(series.imageIds) > 0
    THEN LET i == FindSeries(seriesMap, series.seriesInstanceUID) IN
         IF i = 0 THEN Append(seriesMap, series)
         ELSE [seriesMap EXCEPT ![i] = series]
    ELSE seriesMap

\* Mutant: the seriesNumber of a new series counts the files read so far.
ProcessGroup_CountsFiles(acc, group) ==
    LET i      == FindSeries(acc.seriesMap, group.key)
        series == IF i # 0 THEN acc.seriesMap[i]
                  ELSE [seriesInstanceUID |-> group.key,
                        seriesNumber      |-> Len(acc.map) + Len(acc.errors) + 1,
                        imageIds          |-> <<>>,
                        thumbnail         |-> NoThumbnail]
        r      == ProcessGroupFiles([acc EXCEPT !.imageIds = series.imageIds,
                                                !.thumbnail = series.thumbnail],
                                    group.files, group.key)
    IN  [r EXCEPT !.seriesMap =
            StoreSeries(r.seriesMap, [series EXCEPT !.imageIds = r.imageIds,
                                                    !.thumbnail = r.thumbnail])]

\* One iteration of the loop over seriesGroups.
ProcessGroup(acc, group) ==
    LET i      == FindSeries(acc.seriesMap, group.key)
        series == IF i # 0 THEN acc.seriesMap[i]
                  ELSE [seriesInstanceUID |-> group.key,
                        seriesNumber      |-> Len(acc.seriesMap) + 1,
                        imageIds          |-> <<>>,
                        thumbnail         |-> NoThumbnail]
        r      == ProcessGroupFiles([acc EXCEPT !.imageIds = series.imageIds,
                                                !.thumbnail = series.thumbnail],
                                    group.files, group.key)
    IN  [r EXCEPT !.seriesMap =
            StoreSeries(r.seriesMap, [series EXCEPT !.imageIds = r.imageIds,
                                                    !.thumbnail = r.thumbnail])]

RECURSIVE ProcessGroups(_, _)
ProcessGroups(acc, groups) ==
    IF groups = <<>> THEN acc
    ELSE ProcessGroups(ProcessGroup(acc, Head(groups)), Tail(groups))

\* Array.prototype.sort((a, b) => a.seriesNumber - b.seriesNumber): a stable
\* sort, here by insertion.
RECURSIVE InsertBySeriesNumber(_, _)
InsertBySeriesNumber(sorted, x) ==
    IF sorted = <<>> THEN <<x>>
    ELSE IF Head(sorted).seriesNumber - x.seriesNumber > 0
         THEN <<x>> \o sorted
         ELSE <<Head(sorted)>> \o InsertBySeriesNumber(Tail(sorted), x)

RECURSIVE SortBySeriesNumber(_)
SortBySeriesNumber(list) ==
    IF list = <<>> THEN <<>>
    ELSE InsertBySeriesNumber(SortBySeriesNumber(SubSeq(list, 1, Len(list) - 1)),
                              list[Len(list)])

\* Mutant: the errors are dropped from the message, only the empty list counts.
BatchError_NoList(errors, sortedSeries) ==
    IF Len(sortedSeries) = 0
    THEN Err("No valid DICOM series loaded.")
    ELSE NoError

\* The value processFiles passes to setError.
BatchError(errors, sortedSeries) ==
    IF Len(errors) > 0 THEN FailedToProcess(errors)
    ELSE IF Len(sortedSeries) = 0
         THEN Err("No valid DICOM series loaded.")
         ELSE NoError

\* processFiles over the seriesGroups of the props, with the metadata map as
\* it is when the effect runs.
ProcessFilesResult(groups, map) ==
    LET r == ProcessGroups([seriesMap |-> <<>>, errors |-> <<>>, map |-> map,
                            imageIds |-> <<>>, thumbnail |-> NoThumbnail,
                            aborted |-> FALSE], groups)
        sortedSeries == SortBySeriesNumber(r.seriesMap)
    IN  [sortedSeries |-> sortedSeries,
         errors       |-> r.errors,
         map          |-> r.map,
         aborted      |-> r.aborted,
         error        |-> BatchError(r.errors, sortedSeries)]

\* ------------------------------------------------------------------ Viewer session

\* The Viewer's state, refs and pending operations as one record: the
\* handlers and effects below are functions from such a record to the next.
\* pendingReady and pendingError hold what setIsViewportReady and setError
\* were last called with inside an effect: the values of the next render.
Sess == [currentIndex |-> currentIndex, seriesList |-> seriesList,
         selectedSeriesUID |-> selectedSeriesUID, error |-> error,
      metadata |-> metadata, activeTool |-> activeTool,
      isWadoInitialized |-> isWadoInitialized,
      isViewportReady |-> isViewportReady,
      renderingEngineRef |-> renderingEngineRef,
      isViewportEnabled |-> isViewportEnabled, toolGroupRef |-> toolGroupRef,
      metadataMapRef |-> metadataMapRef,
      setupCleanup |-> setupCleanup, enginesAlive |-> enginesAlive,
      stack |-> stack, toolModes |-> toolModes, objectURLs |-> objectURLs,
      viewerMounted |-> viewerMounted,
      initPhase |-> initPhase, procPhase |-> procPhase,
      loads |-> loads, restore |-> restore,
      pendingReady |-> isViewportReady, pendingError |-> error]

Apply(r) ==
    /\ currentIndex' = r.currentIndex
    /\ seriesList' = r.seriesList
    /\ selectedSeriesUID' = r.selectedSeriesUID
    /\ error' = r.error
    /\ metadata' = r.metadata
    /\ activeTool' = r.activeTool
    /\ isWadoInitialized' = r.isWadoInitialized
    /\ isViewportReady' = r.isViewportReady
    /\ renderingEngineRef' = r.renderingEngineRef
    /\ isViewportEnabled' = r.isViewportEnabled
    /\ toolGroupRef' = r.toolGroupRef
    /\ metadataMapRef' = r.metadataMapRef
    /\ setupCleanup' = r.setupCleanup
    /\ enginesAlive' = r.enginesAlive
    /\ stack' = r.stack
    /\ toolModes' = r.toolModes
    /\ objectURLs' = r.objectURLs
    /\ viewerMounted' = r.viewerMounted
    /\ initPhase' = r.initPhase
    /\ procPhase' = r.procPhase
    /\ loads' = r.loads
    /\ restore' = r.restore

\* The images of the selected series, <<>> when seriesList.find finds none.
SelectedImageIds(s) ==
    LET i == FindSeries(s.seriesList, s.selectedSeriesUID) IN
    IF i = 0 THEN <<>> ELSE s.seriesList[i].imageIds

\* selectedSeries?.imageIds[currentIndex], 0 for undefined
ImageIdAt(imageIds, index) ==
    IF index + 1 \in 1..Len(imageIds) THEN imageIds[index + 1] ELSE 0

\* viewportRef.current and containerRef.current: the viewer's elements exist
\* when the last render was not the error screen (Viewer.tsx 1911-1924).
DomMounted(s) == s.error = NoError

\* How many elements of the bag B are in elems.
RECURSIVE SumOver(_, _)
SumOver(B, elems) ==
    IF elems = {} THEN 0
    ELSE LET e == CHOOSE x \in elems : TRUE IN B[e] + SumOver(B, elems \ {e})

\* Every updateStack suspended at an await holds a viewport of the engine
\* that is being destroyed.
MarkViewportDead(ls) ==
    LET Dead(l) == [l EXCEPT !.vpDead = TRUE] IN
    [x \in { Dead(l) : l \in DOMAIN ls } |->
        SumOver(ls, { l \in DOMAIN ls : Dead(l) = x })]

\* The cleanup the setup effect returned (Viewer.tsx 1481-1489), if any.
RunSetupCleanup(s) ==
    IF ~s.setupCleanup THEN s
    ELSE IF s.renderingEngineRef
         THEN [s EXCEPT !.setupCleanup = FALSE,
                        !.toolModes = NoToolGroup,
                        !.enginesAlive = @ - 1,
                        !.renderingEngineRef = FALSE,
                        !.isViewportEnabled = FALSE,
                        !.loads = MarkViewportDead(@),
                        !.restore = NoStack,
                        !.stack = NoStack]
         ELSE [s EXCEPT !.setupCleanup = FALSE, !.toolModes = NoToolGroup]

Tools == {"WindowLevel", "Zoom"}

\* createToolGroup, addTool of every tool (which leaves a tool disabled),
\* setToolActive(activeTool) (Viewer.tsx 1414-1423).
NewToolGroup(tool) ==
    [t \in Tools |-> IF t = tool THEN "Active" ELSE "Disabled"]

\* setToolPassive of every tool, then setToolActive(activeTool)
\* (Viewer.tsx 1638-1643).
OnlyActive(tool) ==
    [t \in Tools |-> IF t = tool THEN "Active" ELSE "Passive"]

\* setupViewport (Viewer.tsx 1397-1427); hadEngine is the local
\* renderingEngine the effect read from the ref.
SetupViewport(s) ==
    LET a == IF ~s.renderingEngineRef
             THEN [s EXCEPT !.renderingEngineRef = TRUE, !.enginesAlive = @ + 1]
             ELSE s
        b == IF ~a.isViewportEnabled
             THEN IF a.toolModes = NoToolGroup
                  THEN [a EXCEPT !.isViewportEnabled = TRUE,
                                 !.toolGroupRef = TRUE,
                                 !.toolModes = NewToolGroup(a.activeTool)]
                  ELSE [a EXCEPT !.isViewportEnabled = TRUE]
             ELSE a
    IN  [b EXCEPT !.pendingReady = TRUE]

\* updateSize (Viewer.tsx 1429-1473): sizes the element when the current
\* image has metadata, else setIsViewportReady(false).
UpdateSize(s) ==
    LET imageId == ImageIdAt(SelectedImageIds(s), s.currentIndex) IN
    IF imageId # 0 /\ imageId \in DOMAIN s.metadataMapRef
    THEN s
    ELSE [s EXCEPT !.pendingReady = FALSE]

\* The body of the setup effect (Viewer.tsx 1387-1479).
SetupEffect(s) ==
    IF ~DomMounted(s) \/ ~s.isWadoInitialized
    THEN [s EXCEPT !.pendingReady = FALSE]
    ELSE CHOOSE r \in { [UpdateSize(v) EXCEPT !.setupCleanup = TRUE] :
                            v \in {SetupViewport(s)} } : TRUE

\* A further updateStack call follows every call that is suspended.
MarkNotLatest(ls) ==
    LET Old(l) == [l EXCEPT !.latest = FALSE] IN
    [x \in { Old(l) : l \in DOMAIN ls } |->
        SumOver(ls, { l \in DOMAIN ls : Old(l) = x })]

\* updateStack up to its first await (Viewer.tsx 1523-1535): it holds the
\* viewport of the current engine, the image list and index of this render.
\* latest marks the load no later load has followed, ready is the
\* isViewportReady of the render whose effect made the call.
StartLoad(s, imageIds) ==
    [s EXCEPT !.loads = MarkNotLatest(@) (+) SetToBag({
        [imageIds |-> imageIds, index |-> s.currentIndex, attempts |-> 0,
         imageId  |-> ImageIdAt(imageIds, s.currentIndex),
         phase    |-> "decode", vpDead |-> FALSE, latest |-> TRUE,
         ready    |-> s.isViewportReady]})]

\* Mutant: the stack-update effect does not wait for isViewportReady.
StackEffect_NoReadyGuard(s) ==
    IF \/ ~s.renderingEngineRef
       \/ ~DomMounted(s)
       \/ s.selectedSeriesUID = NoUID
    THEN s
    ELSE IF Len(SelectedImageIds(s)) = 0
         THEN [s EXCEPT !.pendingError =
                   Err("Selected series is invalid or has no images.")]
         ELSE StartLoad(s, SelectedImageIds(s))

\* The body of the stack-update effect (Viewer.tsx 1499-1618).
StackEffect(s) ==
    IF \/ ~s.renderingEngineRef
       \/ ~DomMounted(s)
       \/ s.selectedSeriesUID = NoUID
       \/ ~s.isViewportReady
    THEN s
    ELSE IF Len(SelectedImageIds(s)) = 0
         THEN [s EXCEPT !.pendingError =
                   Err("Selected series is invalid or has no images.")]
         ELSE StartLoad(s, SelectedImageIds(s))

\* Mutant: the active-tool effect switches the tools and does not set the
\* stack again.
ToolEffect_NoRestore(s) ==
    IF ~s.toolGroupRef THEN s
    ELSE IF ~(s.renderingEngineRef /\ s.isViewportEnabled) THEN s
    ELSE IF ImageIdAt(SelectedImageIds(s), s.currentIndex) = 0 THEN s
    ELSE [s EXCEPT !.toolModes = IF @ = NoToolGroup THEN @
                                 ELSE OnlyActive(s.activeTool)]

\* The body of the active-tool effect (Viewer.tsx 1621-1662).
ToolEffect(s) ==
    IF ~s.toolGroupRef THEN s
    ELSE IF ~(s.renderingEngineRef /\ s.isViewportEnabled) THEN s
    ELSE IF ImageIdAt(SelectedImageIds(s), s.currentIndex) = 0 THEN s
    ELSE [s EXCEPT !.toolModes = IF @ = NoToolGroup THEN @
                                 ELSE OnlyActive(s.activeTool),
                   !.restore = [imageIds |-> SelectedImageIds(s),
                                index    |-> s.currentIndex]]

SetupDeps == {"isWadoInitialized", "seriesList", "selectedSeriesUID",
              "currentIndex", "activeTool"}

StackDeps == {"currentIndex", "selectedSeriesUID", "seriesList",
              "isViewportReady"}

ToolDeps == {"activeTool", "selectedSeriesUID", "currentIndex", "seriesList"}

\* The setup effect, if a dependency of it changed: its cleanup, then its
\* body.
RunSetupEffect(s, changed) ==
    IF changed \cap SetupDeps # {}
    THEN CHOOSE r \in { SetupEffect(c) : c \in {RunSetupCleanup(s)} } : TRUE
    ELSE s

RunStackEffect(s, changed) ==
    IF changed \cap StackDeps # {} THEN StackEffect(s) ELSE s

RunToolEffect(s, changed) ==
    IF changed \cap ToolDeps # {} THEN ToolEffect(s) ELSE s

\* One commit: the effects whose dependencies changed run in the order of
\* their declaration.
RunEffects(s, changed) ==
    CHOOSE r \in { RunToolEffect(b, changed) :
                     b \in { RunStackEffect(a, changed) :
                               a \in {RunSetupEffect(s, changed)} } } : TRUE

\* The state of the next render: what the effects passed to
\* setIsViewportReady and setError.
Settle(r) ==
    [r EXCEPT !.isViewportReady = r.pendingReady, !.error = r.pendingError]

\* A render with the state the handlers and effects have set, its effects,
\* and the renders that the effects' own setState calls cause.
RECURSIVE Commit(_, _)
Commit(s, changed) ==
    CHOOSE n \in
        { IF r.pendingReady # s.isViewportReady
          THEN Commit(Settle(r), {"isViewportReady"})
          ELSE Settle(r) :
              r \in {RunEffects([s EXCEPT !.pendingReady = s.isViewportReady,
                                          !.pendingError = s.error],
                                changed)} } : TRUE

\* ------------------------------------------------------------------ window

\* A JavaScript value that takes part in arithmetic: a finite number, NaN,
\* an infinity with its sign, or undefined.
JsNumber(n) == [k |-> "number", v |-> n]

JsNaN == [k |-> "NaN", v |-> 0]

JsInfinity(sign) == [k |-> "Infinity", v |-> sign]

JsUndefined == [k |-> "undefined", v |-> 0]

\* ToNumber of the operands of an arithmetic operator.
ToNumber(x) == IF x.k = "undefined" THEN JsNaN ELSE x

\* a + b
JsAdd(a, b) ==
    LET x == ToNumber(a)
        y == ToNumber(b)
    IN  IF x.k = "NaN" \/ y.k = "NaN" THEN JsNaN
        ELSE IF x.k = "Infinity" /\ y.k = "Infinity"
             THEN IF x.v = y.v THEN x ELSE JsNaN
        ELSE IF x.k = "Infinity" THEN x
        ELSE IF y.k = "Infinity" THEN y
        ELSE JsNumber(x.v + y.v)

\* -a
JsNeg(a) ==
    LET x == ToNumber(a) IN
    IF x.k = "NaN" THEN JsNaN
    ELSE IF x.k = "Infinity" THEN JsInfinity(0 - x.v)
    ELSE JsNumber(0 - x.v)

\* a - b
JsSub(a, b) == JsAdd(a, JsNeg(b))

\* a / 2; the widths of the model are even.
JsHalf(a) ==
    LET x == ToNumber(a) IN
    IF x.k = "number" THEN JsNumber(x.v \div 2) ELSE x

\* !a
Falsy(a) == a.k \in {"NaN", "undefined"} \/ (a.k = "number" /\ a.v = 0)

\* isNaN(a)
IsNaN(a) == ToNumber(a).k = "NaN"

\* The value of a tag as dataset.string returns it: the sequence of the
\* tokens of the string, <<>> for undefined (the tag is absent).
Digits(n) == [t |-> "digits", n |-> n]

Text == [t |-> "text", n |-> 0]

InfinityText == [t |-> "Infinity", n |-> 0]

Backslash == [t |-> "backslash", n |-> 0]

\* parseFloat(string): the number the string starts with, NaN if it starts
\* with none or is undefined.
ParseFloat(string) ==
    IF string = <<>> THEN JsNaN
    ELSE IF Head(string).t = "digits" THEN JsNumber(Head(string).n)
    ELSE IF Head(string).t = "Infinity" THEN JsInfinity(1)
    ELSE JsNaN

\* string.includes("MONOCHROME")
IncludesMonochrome(string) == string \in {"MONOCHROME1", "MONOCHROME2"}

\* value || fallback, of a string
OrElse(string, fallback) == IF string = "" THEN fallback ELSE string

\* voiRange of viewport.setProperties (Viewer.tsx 550-553, 1597-1600)
VoiRange(windowCenter, windowWidth) ==
    [lower |-> JsSub(windowCenter, JsHalf(windowWidth)),
     upper |-> JsAdd(windowCenter, JsHalf(windowWidth))]

Window(windowCenter, windowWidth) ==
    [windowCenter |-> windowCenter, windowWidth |-> windowWidth,
     voiRange |-> VoiRange(windowCenter, windowWidth)]

\* No window was applied yet.
NoVoi ==
    [windowCenter |-> JsUndefined, windowWidth |-> JsUndefined,
     voiRange |-> [lower |-> JsUndefined, upper |-> JsUndefined]]

\* The window of updateStack of the fileData-based Viewer
\* (Viewer.tsx 1589-1601).
ResolveWindow(record) ==
    LET windowCenter == ParseFloat(record.windowCenter)
        windowWidth  == ParseFloat(record.windowWidth)
    IN  IF IsNaN(windowCenter) \/ IsNaN(windowWidth)
        THEN Window(JsNumber(128), JsNumber(256))
        ELSE Window(windowCenter, windowWidth)

\* modality in DEFAULT_VOI: the keys of the table.
InDefaultVoi(modality) == modality \in {"CT", "MR", "MONOCHROME", "DEFAULT"}

\* ({ windowCenter, windowWidth } = DEFAULT_VOI[modality]): the entry of
\* MONOCHROME is a function, which has neither property.
DefaultVoi(modality) ==
    IF modality = "CT" THEN Window(JsNumber(0), JsNumber(400))
    ELSE IF modality = "MR" THEN Window(JsNumber(500), JsNumber(1000))
    ELSE IF modality = "DEFAULT" THEN Window(JsNumber(128), JsNumber(256))
    ELSE Window(JsUndefined, JsUndefined)

\* DEFAULT_VOI.MONOCHROME(bitsAllocated)
DefaultVoiMonochrome(bitsAllocated) ==
    IF bitsAllocated = 16 THEN Window(JsNumber(2048), JsNumber(4096))
    ELSE Window(JsNumber(128), JsNumber(256))

\* The window of updateStack of the files-based Viewer (Viewer.tsx 511-554),
\* from the tags as processFiles stored them (Viewer.tsx 186-209).
ResolveWindowFiles(record) ==
    LET windowCenter  == ParseFloat(record.windowCenter)
        windowWidth   == ParseFloat(record.windowWidth)
        modality      == OrElse(record.modality, "OT")
        photometric   == OrElse(record.photometricInterpretation, "YBR_FULL_422")
        bitsAllocated == IF record.bitsAllocated = 0 THEN 8
                         ELSE record.bitsAllocated
    IN  IF Falsy(windowCenter) \/ Falsy(windowWidth)
           \/ IsNaN(windowCenter) \/ IsNaN(windowWidth)
        THEN IF IncludesMonochrome(photometric)
             THEN IF InDefaultVoi(modality)
                  THEN DefaultVoi(modality)
                  ELSE DefaultVoiMonochrome(bitsAllocated)
             ELSE Window(JsNumber(128), JsNumber(256))
        ELSE Window(windowCenter, windowWidth)

\* The tags of a file without window, modality or pixel description.
NoImageRecord ==
    [windowCenter |-> <<>>, windowWidth |-> <<>>, modality |-> "",
     photometricInterpretation |-> "", bitsAllocated |-> 0]

WindowInit ==
    /\ imageRecord = NoImageRecord
    /\ voi = NoVoi
    /\ voiFiles = NoVoi

\* ------------------------------------------------------------------ geometry

\* dataset.uint16(tag) || fallback: the fallback replaces an absent tag
\* (undefined) and a tag of value 0.
OrDefault(tag, fallback) == IF Falsy(tag) THEN fallback ELSE tag.v

\* metadataMapRef.current.get(imageId) is undefined.
NoPixelModule == [rows |-> -1, columns |-> -1, bitsAllocated |-> -1]

\* rows, columns and bitsAllocated of the imagePixelModule that processFiles
\* of the fileData-based Viewer stores (Viewer.tsx 1310-1313).
ImagePixelModule(tags) ==
    [rows          |-> OrDefault(tags.rows, 512),
     columns       |-> OrDefault(tags.columns, 512),
     bitsAllocated |-> OrDefault(tags.bitsAllocated, 16)]

\* The same of the files-based Viewer (Viewer.tsx 204-206).
ImagePixelModuleFiles(tags) ==
    [rows          |-> OrDefault(tags.rows, 512),
     columns       |-> OrDefault(tags.columns, 512),
     bitsAllocated |-> OrDefault(tags.bitsAllocated, 8)]

RECURSIVE Gcd(_, _)
Gcd(a, b) == IF b = 0 THEN a ELSE Gcd(b, a % b)

\* A length in px: the fraction n / d in lowest terms.
Px(n, d) ==
    IF n = 0 THEN [n |-> 0, d |-> 1]
    ELSE LET g == Gcd(n, d) IN [n |-> n \div g, d |-> d \div g]

\* The NaN of a division 0 / 0; also a style length that was never set.
NotANumber == [n |-> 0, d |-> 0]

\* VIEWPORT_SCALE = 0.9, in tenths
ViewportScaleTenths == 9

\* Mutant: the comparison of the aspect ratios is turned round, the image
\* covers the scaled container.
ComputeSize_Cover(rows, columns, clientWidth, clientHeight) ==
    LET aspectMore == IF rows = 0 THEN columns > 0 /\ clientHeight > 0
                      ELSE IF clientHeight = 0 THEN FALSE
                      ELSE columns * clientHeight > clientWidth * rows
    IN  IF aspectMore
        THEN [width  |-> Px(ViewportScaleTenths * clientHeight * columns, 10 * rows),
              height |-> Px(ViewportScaleTenths * clientHeight, 10)]
        ELSE [width  |-> Px(ViewportScaleTenths * clientWidth, 10),
              height |-> IF columns = 0 THEN NotANumber
                         ELSE IF rows = 0 THEN Px(0, 1)
                         ELSE Px(ViewportScaleTenths * clientWidth * rows, 10 * columns)]

\* width and height of the size computation (Viewer.tsx 1439-1448, 597-607):
\* the container's width scaled, the height by the image's aspect ratio;
\* the container's height scaled and the width by the aspect ratio when the
\* image is narrower than the container.  columns / rows is Infinity or NaN
\* for rows = 0, the container's ratio is Infinity or NaN for a height of 0.
ComputeSize(rows, columns, clientWidth, clientHeight) ==
    LET aspectLess == IF rows = 0 THEN FALSE
                      ELSE IF clientHeight = 0 THEN clientWidth > 0
                      ELSE columns * clientHeight < clientWidth * rows
    IN  IF aspectLess
        THEN [width  |-> Px(ViewportScaleTenths * clientHeight * columns,
                            10 * rows),
              height |-> Px(ViewportScaleTenths * clientHeight, 10)]
        ELSE [width  |-> Px(ViewportScaleTenths * clientWidth, 10),
              height |-> IF columns = 0 THEN NotANumber
                         ELSE IF rows = 0 THEN Px(0, 1)
                         ELSE Px(ViewportScaleTenths * clientWidth * rows,
                                 10 * columns)]

\* width and height of the viewport size effect of the files-based Viewer
\* (Viewer.tsx 326-337): the width is taken first when aspectRatio >
\* containerAspect, else the height.
ComputeSizeFiles(rows, columns, clientWidth, clientHeight) ==
    LET aspectMore == IF rows = 0 THEN columns > 0 /\ clientHeight > 0
                      ELSE IF clientHeight = 0 THEN FALSE
                      ELSE columns * clientHeight > clientWidth * rows
    IN  IF aspectMore
        THEN [width  |-> Px(ViewportScaleTenths * clientWidth, 10),
              height |-> IF rows = 0 THEN Px(0, 1)
                         ELSE Px(ViewportScaleTenths * clientWidth * rows, 10 * columns)]
        ELSE [width  |-> IF rows = 0 THEN NotANumber
                         ELSE Px(ViewportScaleTenths * clientHeight * columns, 10 * rows),
              height |-> Px(ViewportScaleTenths * clientHeight, 10)]

\* element.style.width = `${width}px`: the browser ignores "NaNpx".
SetStyle(old, length) == IF length = NotANumber THEN old ELSE length

\* element.clientWidth: the length in whole px, 0 when none was set.
ClientSize(length) ==
    IF length = NotANumber THEN 0
    ELSE (2 * length.n + length.d) \div (2 * length.d)

\* Mutant: the width is scaled from the element's own width.
SizeOf_FromElement(g) ==
    LET m == g.pixelModule
        own == ClientSize(g.element.width)
    IN  ComputeSize(m.rows, m.columns,
                    IF own = 0 THEN g.container.clientWidth ELSE own,
                    g.container.clientHeight)

\* The size of the viewport for the image and the container of g.
SizeOf(g) ==
    LET m == g.pixelModule IN
    ComputeSize(m.rows, m.columns,
                g.container.clientWidth, g.container.clientHeight)

\* updateSize (Viewer.tsx 1429-1473) on the geometry g: the element gets the
\* computed size, the canvas the element's, zoomLevel the viewport's zoom
\* (renderingEngine.resize() keeps the camera); without metadata of the
\* current image, setIsViewportReady(false).  setupViewport ran before, so
\* the rendering engine and its viewport exist.
UpdateSizeGeometry(g) ==
    IF g.pixelModule # NoPixelModule
    THEN LET size == SizeOf(g)
             style == [width  |-> SetStyle(g.element.width, size.width),
                       height |-> SetStyle(g.element.height, size.height)]
         IN  [g EXCEPT !.element = style,
                       !.canvas = [width  |-> ClientSize(style.width),
                                   height |-> ClientSize(style.height)],
                       !.zoomLevel = g.viewportZoom]
    ELSE [g EXCEPT !.isViewportReady = FALSE]

\* The callback of the timer of handleResize (Viewer.tsx 586-627): the same,
\* and nothing without metadata of the current image.
HandleResizeGeometry(g) ==
    IF g.pixelModule # NoPixelModule THEN UpdateSizeGeometry(g) ELSE g

\* The viewport size effect of the files-based Viewer (Viewer.tsx 297-357)
\* with a series selected and the loader initialised: the element gets the
\* computed size and setIsViewportReady(true); without metadata of the
\* current image the viewport is ready when the series has images, and
\* else the element is 0px wide and high.
SizeEffectGeometry(g, hasImages) ==
    IF g.pixelModule # NoPixelModule
    THEN LET m    == g.pixelModule
             size == ComputeSizeFiles(m.rows, m.columns,
                                      g.container.clientWidth,
                                      g.container.clientHeight)
         IN  [g EXCEPT !.element = [width  |-> SetStyle(@.width, size.width),
                                    height |-> SetStyle(@.height, size.height)],
                       !.isViewportReady = TRUE]
    ELSE IF hasImages
         THEN [g EXCEPT !.isViewportReady = TRUE]
         ELSE [g EXCEPT !.element = [width |-> Px(0, 1), height |-> Px(0, 1)],
                        !.isViewportReady = FALSE]

NoSize == [width |-> NotANumber, height |-> NotANumber]

GeometryInit ==
    /\ pixelTags = [rows |-> JsUndefined, columns |-> JsUndefined,
                    bitsAllocated |-> JsUndefined]
    /\ pixelModule = NoPixelModule
    /\ pixelModuleFiles = NoPixelModule
    /\ container = [clientWidth |-> 0, clientHeight |-> 0]
    /\ element = NoSize
    /\ canvas = [width |-> 0, height |-> 0]
    /\ viewportZoom = 100
    /\ zoomLevel = 100

\* ---------------------------------------------------- automatic window

\* A JavaScript number that arithmetic on integers produced: the fraction
\* n / d in lowest terms, d > 0.
Frac(n, d) ==
    IF n = 0 THEN [n |-> 0, d |-> 1]
    ELSE LET g == Gcd(IF n < 0 THEN -n ELSE n, d)
         IN  [n |-> n \div g, d |-> d \div g]

\* a < b
FracLess(a, b) == a.n * b.d < b.n * a.d

\* Math.max(a, b)
FracMax(a, b) == IF FracLess(a, b) THEN b ELSE a

\* Math.round(a): the integer nearest to a, halves upwards.
FracRound(a) == (2 * a.n + a.d) \div (2 * a.d)

\* values.sort((a, b) => a - b)[index], for the bag of the values.
SortedAt(data, index) ==
    CHOOSE v \in DOMAIN data :
        LET below == SumOver(data, { u \in DOMAIN data : u < v })
        IN  below <= index /\ index < below + data[v]

\* Math.floor(length * 0.01 * hundredths)
PercentileIndex(length, hundredths) == (length * hundredths) \div 100

\* The statistics of the full scan and the percentiles
\* (Trial.tsx 371-404).
ImageStatistics(data) ==
    LET length == BagCardinality(data)
        sum    == SumOver([v \in DOMAIN data |-> v * data[v]], DOMAIN data)
        nonZeroCount == SumOver(data, DOMAIN data \ {0})
        mean   == Frac(sum, length)
    IN  [length |-> length,
         min  |-> CHOOSE v \in DOMAIN data : \A u \in DOMAIN data : v <= u,
         max  |-> CHOOSE v \in DOMAIN data : \A u \in DOMAIN data : v >= u,
         mean |-> mean,
         nonZeroCount |-> nonZeroCount,
         nonZeroMean  |-> IF nonZeroCount > 0 THEN Frac(sum, nonZeroCount)
                          ELSE mean,
         p1   |-> SortedAt(data, PercentileIndex(length, 1)),
         p99  |-> SortedAt(data, PercentileIndex(length, 99)),
         p5   |-> SortedAt(data, PercentileIndex(length, 5)),
         p95  |-> SortedAt(data, PercentileIndex(length, 95))]

\* Mutant: a constant image takes the full-range strategy.
BaseWindow_NoDefault(st) ==
    IF st.p99 > st.p1
    THEN [windowWidth  |-> Frac(st.p99 - st.p1, 1),
          windowCenter |-> Frac(st.p99 + st.p1, 2)]
    ELSE [windowWidth  |-> Frac(st.max - st.min, 1),
          windowCenter |-> Frac(st.max + st.min, 2)]

\* The three strategies (Trial.tsx 431-443).
BaseWindow(st) ==
    IF st.p99 > st.p1
    THEN [windowWidth  |-> Frac(st.p99 - st.p1, 1),
          windowCenter |-> Frac(st.p99 + st.p1, 2)]
    ELSE IF st.max > st.min
         THEN [windowWidth  |-> Frac(st.max - st.min, 1),
               windowCenter |-> Frac(st.max + st.min, 2)]
         ELSE [windowWidth  |-> Frac(1000, 1),
               windowCenter |-> Frac(500, 1)]

\* No series of groupedSeries holds the current image, or its modality is
\* empty.
NoModality == ""

\* modality.toUpperCase(), over the modalities of the model.
ToUpperCase(modality) ==
    IF modality = "ct" THEN "CT"
    ELSE IF modality = "mr" THEN "MR"
    ELSE modality

\* The modality-specific adjustments (Trial.tsx 445-477).
AdjustForModality(w, st, modality) ==
    IF modality = NoModality THEN w
    ELSE LET m == ToUpperCase(modality) IN
         IF m = "CT"
         THEN IF \/ FracLess(w.windowWidth, Frac(50, 1))
                 \/ FracLess(w.windowCenter, Frac(-1000, 1))
                 \/ FracLess(Frac(3000, 1), w.windowCenter)
              THEN [windowWidth |-> Frac(400, 1), windowCenter |-> Frac(40, 1)]
              ELSE w
         ELSE IF m = "MR"
         THEN IF 10 * st.nonZeroCount > st.length
              THEN [windowWidth  |-> FracMax(w.windowWidth,
                                             Frac(3 * (st.p95 - st.p5), 2)),
                    windowCenter |-> st.nonZeroMean]
              ELSE w
         ELSE IF m = "US"
         THEN [w EXCEPT !.windowWidth = FracMax(@, Frac(st.max - st.min, 1))]
         ELSE IF m \in {"CR", "DX"}
         THEN [windowWidth  |-> FracMax(w.windowWidth,
                                        Frac(2 * (st.p95 - st.p5), 1)),
               windowCenter |-> Frac(st.p95 + st.p5, 2)]
         ELSE w

\* The final safety checks (Trial.tsx 479-491).  Every number computed from
\* an integer buffer is finite, so the isFinite tests are false.
SafetyChecks(w, st) ==
    LET a == IF ~FracLess(Frac(0, 1), w.windowWidth)
             THEN [w EXCEPT !.windowWidth =
                       FracMax(Frac(1, 1), Frac(st.max - st.min, 1))]
             ELSE w
    IN  IF FracLess(a.windowWidth, Frac(1, 1))
        THEN [a EXCEPT !.windowWidth = Frac(1000, 1)]
        ELSE a

\* windowWidth and windowCenter of loadDicomImage (Trial.tsx 371-491).
AutoWindow(data, modality) ==
    LET st == ImageStatistics(data)
    IN  SafetyChecks(AdjustForModality(BaseWindow(st), st, modality), st)

\* No window was applied.
NoWindow == [windowWidth |-> Frac(0, 1), windowCenter |-> Frac(0, 1)]

\* useState({ width: 400, center: 40 }) of Trial
DefaultWindowLevel == [width |-> 400, center |-> 40]

AutoInit ==
    /\ scalarData = EmptyBag
    /\ seriesModality = NoModality
    /\ viewportWindow = NoWindow
    /\ windowLevel = DefaultWindowLevel

\* ------------------------------------------------------------------ Trial

\* A file's tags as Trial reads them: seriesNumber is (0020,0011), inst is
\* (0020,0013), 0 for a tag the dataset does not have.
TrialSeriesKey(file) ==
    <<"Unknown Study", "|",
      IF file.seriesNumber = 0 THEN "Unknown Series" ELSE file.seriesNumber>>

\* parseInt(dataset.string("x00200013") || "1")
TrialInstanceNumber(file) == IF file.inst = 0 THEN 1 ELSE file.inst

\* The filter of handleFolderUpload (Trial.tsx 190-196) on the file name: it
\* ends with .dcm in any case, or has no extension.
TrialAccepts(file) == ToLowerCase(file.ext) = "dcm" \/ file.ext = ""

RECURSIVE TrialFilter(_)
TrialFilter(files) ==
    IF files = <<>> THEN <<>>
    ELSE IF TrialAccepts(Head(files))
         THEN <<Head(files)>> \o TrialFilter(Tail(files))
         ELSE TrialFilter(Tail(files))

TrialFind(grouped, key) ==
    IF \E i \in 1..Len(grouped) : grouped[i].seriesKey = key
    THEN CHOOSE i \in 1..Len(grouped) : grouped[i].seriesKey = key
    ELSE 0

\* generateThumbnail of Trial (Trial.tsx 300-334): the data URL of the
\* canvas loadImageToCanvas drew; when that rejects, of the placeholder the
\* inner catch draws (black, "DICOM" and the modality).
TrialGenerateThumbnail(file) ==
    IF file.pix THEN "image" ELSE "placeholder"

\* The body of the loop of processDicomFiles (Trial.tsx 214-294): a file
\* that cannot be parsed is named in a console warning and skipped; a parsed
\* one gets a blob URL (the image id: the number of the URL) and is pushed
\* to the instances of its series, and a series without thumbnail gets one.
TrialProcessOne(acc, file) ==
    IF ~file.ok
    THEN [acc EXCEPT !.warned = Append(@, FileName(file))]
    ELSE LET key     == TrialSeriesKey(file)
             imageId == acc.urls + 1
             i       == TrialFind(acc.grouped, key)
             g       == IF i # 0 THEN acc.grouped
                        ELSE Append(acc.grouped,
                                    [seriesKey |-> key, instances |-> <<>>,
                                     thumbnail |-> NoThumbnail])
             j       == IF i # 0 THEN i ELSE Len(g)
         IN  [acc EXCEPT
                !.urls = imageId,
                !.grouped = [g EXCEPT
                    ![j].instances =
                        Append(@, [imageId |-> imageId,
                                   instanceNumber |-> TrialInstanceNumber(file)]),
                    ![j].thumbnail =
                        IF @ = NoThumbnail THEN TrialGenerateThumbnail(file)
                        ELSE @]]

RECURSIVE ProcessDicomFiles(_, _)
ProcessDicomFiles(acc, files) ==
    IF files = <<>> THEN acc
    ELSE ProcessDicomFiles(TrialProcessOne(acc, Head(files)), Tail(files))

\* The comparator of handleSeriesClick: (a.instanceNumber || 0) minus
\* (b.instanceNumber || 0).
CompareInstances(a, b) == a.instanceNumber - b.instanceNumber

\* Mutant: an instance goes in front of those with an equal number.
InsertInstance_BeforeEqual(sorted, x) ==
    LET before == { k \in 1..Len(sorted) :
                      \A j \in 1..k : CompareInstances(sorted[j], x) < 0 }
        n      == Cardinality(before)
    IN  SubSeq(sorted, 1, n) \o <<x>> \o SubSeq(sorted, n + 1, Len(sorted))

\* Array.prototype.sort is stable: an instance goes behind every instance
\* that does not compare greater.
InsertInstance(sorted, x) ==
    LET before == { k \in 1..Len(sorted) :
                      \A j \in 1..k : CompareInstances(sorted[j], x) <= 0 }
        n      == Cardinality(before)
    IN  SubSeq(sorted, 1, n) \o <<x>> \o SubSeq(sorted, n + 1, Len(sorted))

RECURSIVE SortInstances(_)
SortInstances(instances) ==
    IF instances = <<>> THEN <<>>
    ELSE InsertInstance(
            SortInstances(SubSeq(instances, 1, Len(instances) - 1)),
            instances[Len(instances)])

\* sortedInstances.map((instance) => instance.imageId)
ImageIdsOf(instances) == [k \in 1..Len(instances) |-> instances[k].imageId]

TrialFields ==
    /\ groupedSeries = <<>>
    /\ trialStack = NoStack
    /\ selectedSeriesKey = NoUID
    /\ blobUrlsRef = 0
    /\ consoleWarnings = <<>>
    /\ trialPhase = "pending"
    /\ trialToolModes = NoToolGroup
    /\ trialActiveTool = "Pan"
    /\ trialObjectURLs = {}

TrialInit == TrialFields /\ trialMounted = TRUE

\* ------------------------------------------------------------------ single-file Trial

\* The state of the single-file Trial after its first render.
SingleFields ==
    /\ singleInit = "pending"
    /\ singleEngineRef = "null"
    /\ singleEnginesAlive = 0
    /\ singlePending = 0
    /\ singleError = FALSE
    /\ singleUploads = 0
    /\ singleLate = [pending |-> 0, settled |-> 0]
    /\ singleRenders = 0

\* The single-file Trial is not the component on the page.
SingleInit == SingleFields /\ singleMounted = FALSE

\* initializeCornerstone of the single-file Trial ends (Trial.tsx 963-1035).
SingleInitializeDone ==
    /\ singleMounted
    /\ singleInit = "pending"
    /\ \E ok \in BOOLEAN :
          /\ singleInit' = IF ok THEN "done" ELSE "failed"
          /\ singleError' = IF ok THEN singleError ELSE TRUE
    /\ UNCHANGED <<singleMounted, singleEngineRef, singleEnginesAlive,
                   singlePending, singleUploads, singleLate, singleRenders,
                   uploadVars, viewerVars,
                   trialVars, windowVars, clockVars, exportVars, geometryVars, autoVars>>

\* renderingEngineRef.current.destroy(): of an engine that is alive.
DestroyedEngines(ref) == IF ref = "alive" THEN 1 ELSE 0

\* Mutant: renderDicomFile creates the new engine without destroying the
\* one the ref holds.
RenderEngines_NoDestroy(ref, alive) == alive + 1

\* The engines alive once renderDicomFile has destroyed the engine of the
\* ref, if there is one, and created a new one (Trial.tsx 1135-1149).
RenderEngines(ref, alive) == alive - DestroyedEngines(ref) + 1

\* handleFileUpload with renderDicomFile up to the await of
\* loadImageWithProgress (Trial.tsx 1074-1198); isDicom is the result of
\* validateDicomFile.
SingleHandleFileUpload ==
    /\ singleMounted
    /\ singleUploads < MaxUploads
    /\ singleUploads' = singleUploads + 1
    /\ \E isDicom \in BOOLEAN :
          IF isDicom /\ singleInit = "done"
          THEN /\ singleEnginesAlive' =
                     RenderEngines(singleEngineRef, singleEnginesAlive)
               /\ singleEngineRef' = "alive"
               /\ singlePending' = singlePending + 1
               /\ singleError' = FALSE
          ELSE /\ singleError' = TRUE
               /\ UNCHANGED <<singleEngineRef, singleEnginesAlive,
                              singlePending>>
    /\ UNCHANGED <<singleMounted, singleInit, singleLate, singleRenders,
                   uploadVars, viewerVars,
                   trialVars, windowVars, clockVars, exportVars, geometryVars, autoVars>>

\* Mutant: a call of resolve or reject on a settled promise settles it
\* again.
SinglePromiseSettles_Again(settled, ok, st) ==
    [error   |-> IF ok THEN st.error ELSE TRUE,
     renders |-> IF ok THEN st.renders + 1 ELSE st.renders]

\* resolve() or reject(err) of the promise of loadImageWithProgress
\* (Trial.tsx 1173-1198) and what awaits it: the first call settles the
\* promise, and renderDicomFile goes on to viewport.render() (1200-1227) or
\* to its catch and the setError of handleFileUpload (1230-1260, 1113-1116);
\* a call on a settled promise does nothing.  st is the error and the
\* number of loads rendered.
SinglePromiseSettles(settled, ok, st) ==
    IF settled THEN st
    ELSE [error   |-> IF ok THEN st.error ELSE TRUE,
          renders |-> IF ok THEN st.renders + 1 ELSE st.renders]

\* viewport.setStack inside loadImageWithProgress settles before the timer
\* (Trial.tsx 1187-1194): clearTimeout, then resolve or reject.
SingleStackSettled ==
    /\ singlePending > 0
    /\ singlePending' = singlePending - 1
    /\ \E ok \in BOOLEAN :
       \E st \in {SinglePromiseSettles(FALSE, ok,
                       [error |-> singleError, renders |-> singleRenders])} :
          /\ singleError' = st.error
          /\ singleRenders' = st.renders
    /\ UNCHANGED <<singleMounted, singleInit, singleEngineRef,
                   singleEnginesAlive, singleUploads, singleLate,
                   uploadVars, viewerVars,
                   trialVars, windowVars, clockVars, exportVars, geometryVars, autoVars>>

\* The 60 s timer of loadImageWithProgress fires first (Trial.tsx
\* 1174-1180): the promise is rejected, renderDicomFile takes its catch;
\* the setStack call is still pending.
SingleDeadline ==
    /\ singlePending > 0
    /\ singlePending' = singlePending - 1
    /\ singleLate' = [singleLate EXCEPT !.pending = @ + 1]
    /\ \E st \in {SinglePromiseSettles(FALSE, FALSE,
                       [error |-> singleError, renders |-> singleRenders])} :
          /\ singleError' = st.error
          /\ singleRenders' = st.renders
    /\ UNCHANGED <<singleMounted, singleInit, singleEngineRef,
                   singleEnginesAlive, singleUploads, uploadVars, viewerVars,
                   trialVars, windowVars, clockVars, exportVars, geometryVars, autoVars>>

\* viewport.setStack settles after the timer has fired (Trial.tsx
\* 1187-1194): clearTimeout of the timer that fired, then resolve or reject
\* of the promise the timer rejected.
SingleLateSettled ==
    /\ singleLate.pending > 0
    /\ singleLate' = [pending |-> singleLate.pending - 1,
                      settled |-> singleLate.settled + 1]
    /\ \E ok \in BOOLEAN :
       \E st \in {SinglePromiseSettles(TRUE, ok,
                       [error |-> singleError, renders |-> singleRenders])} :
          /\ singleError' = st.error
          /\ singleRenders' = st.renders
    /\ UNCHANGED <<singleMounted, singleInit, singleEngineRef,
                   singleEnginesAlive, singlePending, singleUploads,
                   uploadVars, viewerVars,
                   trialVars, windowVars, clockVars, exportVars, geometryVars, autoVars>>

\* The single-file Trial unmounts (Trial.tsx 1290-1300): the engine of the
\* ref is destroyed, the ref keeps referring to it.
SingleUnmount ==
    /\ singleMounted
    /\ singleMounted' = FALSE
    /\ singleEnginesAlive' = singleEnginesAlive - DestroyedEngines(singleEngineRef)
    /\ singleEngineRef' = IF singleEngineRef = "null" THEN "null"
                          ELSE "destroyed"
    /\ UNCHANGED <<singleInit, singlePending, singleError, singleUploads,
                   singleLate, singleRenders,
                   uploadVars, viewerVars, trialVars, windowVars, clockVars, exportVars, geometryVars, autoVars>>

\* ------------------------------------------------------------------ inputs

\* Directory parts of a relative path: none (a file dropped by itself), one
\* folder, or a folder inside a folder.
Dirs == { <<>>, <<Str("A")>>, <<Str("B")>>, <<<<"Series_", 1>>>>,
          <<Str("A"), Str("B")>> }

Stems == {"f1", "f2"}

MkFile(stem, ext, dir) ==
    [stem |-> stem, ext |-> ext,
     path |-> IF dir = <<>> THEN <<>> ELSE Append(dir, Str(stem)),
     ok |-> TRUE, inst |-> 0, pix |-> TRUE]

\* Files a user can pick: .dcm files (in either case) anywhere, and one file
\* of another type.
PickedFiles ==
    { MkFile(s, e, d) : s \in Stems, e \in {"dcm", "DCM"}, d \in Dirs }
    \cup { MkFile("f1", "txt", <<>>), MkFile("f2", "txt", <<Str("A")>>) }

SeqsUpTo(S, n) == UNION { [1..k -> S] : k \in 0..n }

\* ------------------------------------------------------------------ Viewer actions

\* The state after the first render and its effects: nothing is initialized,
\* the setup effect has called setIsViewportReady(false) and returned.
ViewerFields ==
    /\ currentIndex = 0
    /\ seriesList = <<>>
    /\ selectedSeriesUID = NoUID
    /\ error = NoError
    /\ metadata = NoMetadata
    /\ activeTool = "WindowLevel"
    /\ isWadoInitialized = FALSE
    /\ isViewportReady = FALSE
    /\ renderingEngineRef = FALSE
    /\ isViewportEnabled = FALSE
    /\ toolGroupRef = FALSE
    /\ metadataMapRef = <<>>
    /\ setupCleanup = FALSE
    /\ enginesAlive = 0
    /\ stack = NoStack
    /\ toolModes = NoToolGroup
    /\ objectURLs = {}
    /\ initPhase = "pending"
    /\ procPhase = "pending"
    /\ loads = EmptyBag
    /\ restore = NoStack

ViewerInit == ViewerFields /\ viewerMounted = TRUE

\* A step of the Viewer: the state a handler or a resumed async function has
\* set, then the render and the effects.  No more than MaxPending
\* updateStack calls are suspended at a time.
Render(s, changed) ==
    \E r \in { Commit(s0, changed) : s0 \in {s} } :
        /\ viewerMounted
        /\ BagCardinality(r.loads) <= MaxPending
        /\ Apply(r)
        /\ UNCHANGED <<uploadVars, trialVars, windowVars, singleVars>>

\* A step of the Viewer that does not read the clock and downloads nothing.
Step(s, changed) ==
    Render(s, changed) /\ UNCHANGED <<clockVars, exportVars, geometryVars, autoVars>>

\* initializeCore resumes after its awaits (Viewer.tsx 1180-1200).
InitializeCoreDone ==
    /\ initPhase = "pending"
    /\ \E ok \in BOOLEAN :
         IF ok
         THEN Step([Sess EXCEPT !.initPhase = "done",
                                !.isWadoInitialized = TRUE],
                   {"isWadoInitialized"})
         ELSE Step([Sess EXCEPT !.initPhase = "failed",
                                !.error = Err("Initialization failed")], {})

\* processFiles (Viewer.tsx 1272-1371) has read and parsed every file and
\* sets the series list, the first selection and the error.
ProcessFilesDone ==
    /\ procPhase = "pending"
    /\ \E r \in { ProcessFilesResult(g, metadataMapRef) :
                      g \in {fileData.seriesGroups} } :
       \E select \in { Len(r.sortedSeries) > 0 /\ selectedSeriesUID = NoUID } :
       \E s \in { IF r.aborted
                  THEN [Sess EXCEPT !.procPhase = "threw"]
                  ELSE [Sess EXCEPT
                        !.procPhase = "done",
                        !.metadataMapRef = r.map,
                        !.objectURLs =
                            @ \cup (DOMAIN r.map \ DOMAIN metadataMapRef),
                        !.seriesList = r.sortedSeries,
                        !.selectedSeriesUID =
                            IF select THEN r.sortedSeries[1].seriesInstanceUID
                            ELSE @,
                        !.currentIndex = IF select THEN 0 ELSE @,
                        !.error = r.error] } :
           IF r.aborted
           THEN Step(s, {})
           ELSE Step(s, {"seriesList"}
                          \cup (IF select THEN {"selectedSeriesUID"} ELSE {})
                          \cup (IF select /\ currentIndex # 0
                                THEN {"currentIndex"} ELSE {}))

\* The Viewer unmounts, after processFiles has ended: React runs the
\* cleanups the effects returned.  The setup effect returned one
\* (Viewer.tsx 1481-1489); the effect of processFiles returned none, the
\* function of lines 1372-1380 is the result of the promise of processFiles
\* (Viewer.tsx 1383).
ViewerUnmount ==
    /\ viewerMounted
    /\ procPhase # "pending"
    /\ \E r \in { RunSetupCleanup(s0) : s0 \in {Sess} } :
          Apply([r EXCEPT !.viewerMounted = FALSE])
    /\ UNCHANGED <<uploadVars, trialVars, windowVars, singleVars, clockVars, exportVars, geometryVars, autoVars>>

\* The viewer (not the error screen) is what the last render returned.
ViewerShown == error = NoError

Min(a, b) == IF a < b THEN a ELSE b

Max(a, b) == IF a > b THEN a ELSE b

\* setCurrentIndex(nextIndex) and the render it causes, if the value is new.
SetCurrentIndex(s, nextIndex) ==
    IF nextIndex # s.currentIndex
    THEN Step([s EXCEPT !.currentIndex = nextIndex], {"currentIndex"})
    ELSE Step(s, {})

\* Mutant: the wheel handler does not clamp at the last image.
ScrollIndex_NoUpperClamp(index, direction, len) == Max(0, index + direction)

\* nextIndex of handleScroll
ScrollIndex(index, direction, len) ==
    Min(Max(0, index + direction), len - 1)

\* The wheel throttle of handleScroll, in ms (Viewer.tsx 1843).
ScrollThrottleMs == 300

\* The wheel throttle of Trial's handleScroll, in ms (Trial.tsx 613).
TrialScrollThrottleMs == 100

\* lastScrollTime starts at 0 (Viewer.tsx 1156, Trial.tsx 67): the first
\* wheel event comes more than a throttle interval after it.
ClockInit ==
    /\ sinceScroll = ScrollThrottleMs
    /\ trialSinceScroll = TrialScrollThrottleMs

NoDownload == [index |-> -1, metadata |-> NoMetadata, stack |-> NoStack]

\* No file has been downloaded.
ExportInit == download = NoDownload

\* handleScroll (Viewer.tsx 1839-1862); direction is Math.sign(event.deltaY),
\* sinceLast is Date.now() - lastScrollTime.current.  The element takes
\* wheel events while it is visible.
HandleScroll(direction, sinceLast) ==
    /\ ViewerShown /\ isViewportReady
    /\ IF sinceLast < ScrollThrottleMs
       THEN Step(Sess, {})
       ELSE LET i == FindSeries(seriesList, selectedSeriesUID) IN
            IF i # 0
            THEN SetCurrentIndex(Sess,
                    ScrollIndex(currentIndex, direction,
                                Len(seriesList[i].imageIds)))
            ELSE Step(Sess, {})

\* Mutant: the wheel handler steps by event.deltaY itself.
Sign_Identity(x) == x

\* The times between two events, in ms.
TickMs == {99, 100, 201}

\* Math.sign
Sign(x) == IF x > 0 THEN 1 ELSE IF x < 0 THEN -1 ELSE 0

\* event.deltaY of wheel events: a fast spin upwards, no vertical movement,
\* a pixel of a touchpad downwards.
WheelDeltas == {-480, 0, 1}

Wheel ==
    \E deltaY \in WheelDeltas, sinceLast \in {299, 300} :
        HandleScroll(Sign(deltaY), sinceLast)

\* now - lastScrollTime.current < interval
Throttled(sinceLast, interval) == sinceLast < interval

\* handleScroll (Viewer.tsx 1839-1862) with the clock of the session: an
\* event that passes the throttle sets lastScrollTime.current = now.
HandleScrollAt(direction) ==
    /\ ViewerShown /\ isViewportReady
    /\ IF Throttled(sinceScroll, ScrollThrottleMs)
       THEN Render(Sess, {}) /\ UNCHANGED sinceScroll
       ELSE /\ sinceScroll' = 0
            /\ LET i == FindSeries(seriesList, selectedSeriesUID) IN
               IF i # 0
               THEN \E nextIndex \in { ScrollIndex(currentIndex, direction,
                                            Len(seriesList[i].imageIds)) } :
                       Render([Sess EXCEPT !.currentIndex = nextIndex],
                              IF nextIndex # currentIndex
                              THEN {"currentIndex"} ELSE {})
               ELSE Render(Sess, {})
    /\ UNCHANGED <<trialSinceScroll, exportVars, geometryVars, autoVars>>

WheelAt == \E deltaY \in WheelDeltas : HandleScrollAt(Sign(deltaY))

\* handleKeyDown (Viewer.tsx 1871-1887), a listener of window.
HandleKeyDown(key) ==
    LET i == FindSeries(seriesList, selectedSeriesUID) IN
    IF i = 0 THEN Step(Sess, {})
    ELSE IF key = "ArrowLeft" /\ currentIndex > 0
         THEN SetCurrentIndex(Sess, currentIndex - 1)
         ELSE IF key = "ArrowRight"
                 /\ currentIndex < Len(seriesList[i].imageIds) - 1
              THEN SetCurrentIndex(Sess, currentIndex + 1)
              ELSE Step(Sess, {})

KeyDown == \E key \in {"ArrowLeft", "ArrowRight", "Enter"} : HandleKeyDown(key)

\* The navigation buttons are rendered for a selected series of more than
\* one image (Viewer.tsx 1995-1997).
NavButtonsShown ==
    /\ ViewerShown
    /\ selectedSeriesUID # NoUID
    /\ Len(SelectedImageIds(Sess)) > 1

\* The previous button (Viewer.tsx 1999-2009).
PrevClick ==
    /\ NavButtonsShown
    /\ currentIndex # 0
    /\ SetCurrentIndex(Sess, Max(0, currentIndex - 1))

\* length - 1 || 0
LastIndexOrZero(len) == IF len - 1 # 0 THEN len - 1 ELSE 0

\* The next button (Viewer.tsx 2016-2039).
NextClick ==
    /\ NavButtonsShown
    /\ currentIndex # Len(SelectedImageIds(Sess)) - 1
    /\ SetCurrentIndex(Sess,
          Min(LastIndexOrZero(Len(SelectedImageIds(Sess))), currentIndex + 1))

\* Mutant: the selection is set before the series is looked up.
HandleSeriesSelect_SelectsFirst(seriesUID) ==
    LET i == FindSeries(seriesList, seriesUID)
        changed == (IF seriesUID # selectedSeriesUID
                    THEN {"selectedSeriesUID"} ELSE {})
                   \cup (IF currentIndex # 0 THEN {"currentIndex"} ELSE {})
    IN  IF i # 0 /\ Len(seriesList[i].imageIds) > 0
        THEN Step([Sess EXCEPT !.selectedSeriesUID = seriesUID,
                               !.currentIndex = 0], changed)
        ELSE Step([Sess EXCEPT !.selectedSeriesUID = seriesUID,
                               !.currentIndex = 0,
                               !.error = Err("Invalid or empty series selected.")],
                  changed)

\* handleSeriesSelect (Viewer.tsx 1894-1909), from a click on a series of
\* the sidebar.
HandleSeriesSelect(seriesUID) ==
    LET i == FindSeries(seriesList, seriesUID) IN
    IF i # 0 /\ Len(seriesList[i].imageIds) > 0
    THEN Step([Sess EXCEPT !.selectedSeriesUID = seriesUID,
                           !.currentIndex = 0],
              (IF seriesUID # selectedSeriesUID
               THEN {"selectedSeriesUID"} ELSE {})
              \cup (IF currentIndex # 0 THEN {"currentIndex"} ELSE {}))
    ELSE Step([Sess EXCEPT !.error = Err("Invalid or empty series selected.")],
              {})

SeriesSelect ==
    /\ ViewerShown
    /\ \E i \in 1..Len(seriesList) :
          HandleSeriesSelect(seriesList[i].seriesInstanceUID)

\* The keys handleSeriesSelect can be called with: those of the series list
\* and the name of a folder that gave no series.
SelectKeys ==
    { seriesList[i].seriesInstanceUID : i \in 1..Len(seriesList) }
    \cup {Str("C")}

\* handleSeriesSelect called with any key, while the viewer is shown.
SeriesSelectKey ==
    /\ ViewerShown
    /\ \E seriesUID \in SelectKeys : HandleSeriesSelect(seriesUID)

\* activateTool(toolName) (Viewer.tsx 1797-1799): setActiveTool(toolName)
\* and the render it causes, if the value is new.
SetActiveTool(toolName) ==
    Step([Sess EXCEPT !.activeTool = toolName],
         IF toolName # activeTool THEN {"activeTool"} ELSE {})

\* A tool button is clicked.
ActivateTool ==
    /\ ViewerShown
    /\ \E toolName \in Tools : SetActiveTool(toolName)

\* exportImage (Viewer.tsx 1665-1795), from the export button, which is
\* enabled when isViewportReady and a series is selected (2181-2191): the
\* file holds the canvas of the viewport with the texts of metadata, its
\* name holds currentIndex + 1.
ExportImage ==
    /\ ViewerShown /\ isViewportReady /\ selectedSeriesUID # NoUID
    /\ IF \/ ~renderingEngineRef
          \/ ~DomMounted(Sess)
          \/ ~isViewportReady
          \/ metadata = NoMetadata
       THEN /\ Render([Sess EXCEPT !.error = Err("No image loaded to export.")],
                      {})
            /\ UNCHANGED download
       ELSE /\ Render(Sess, {})
            /\ download' = [index |-> currentIndex, metadata |-> metadata,
                            stack |-> stack]
    /\ UNCHANGED <<clockVars, geometryVars, autoVars>>

\* The button "Back to Upload" of the error screen (Viewer.tsx 1911-1924,
\* 808-821): console.warn("setFiles not implemented"), and no state is set.
BackToUpload ==
    /\ viewerMounted
    /\ error # NoError
    /\ UNCHANGED vars

\* imageLoader.loadAndCacheImage(imageId) resolves with pixel data
Decodable(map, imageId) == imageId \in DOMAIN map /\ map[imageId].pix

\* imageMetadata of updateStack (Viewer.tsx 1566-1578)
MetaOf(map, imageId) ==
    [imageId |-> imageId, instanceNumber |-> map[imageId].instanceNumber]

\* One updateStack call ends, or goes on as the record m.
Without(ls, l) == ls (-) SetToBag({l})

Replace(ls, l, m) == (ls (-) SetToBag({l})) (+) SetToBag({m})

\* The catch of updateStack (Viewer.tsx 1607-1614): setError.
LoadFailed(s, l) ==
    [s EXCEPT !.error = Err("Failed to render series"),
              !.loads = Without(@, l)]

\* The catch inside the retry loop (Viewer.tsx 1541-1550).
DecodeRejected(s, l) ==
    LET attempts  == l.attempts + 1
        nextIndex == (l.index + attempts) % Len(l.imageIds)
    IN  IF attempts = Len(l.imageIds) + 1
        THEN LoadFailed(s, l)
        ELSE [s EXCEPT !.loads = Replace(@, l,
                 [l EXCEPT !.attempts = attempts,
                           !.imageId = l.imageIds[nextIndex + 1]])]

\* Mutant: the metadata is read for the image at the index of the call.
DecodeResolved_MetaAtIndex(s, l) ==
    [s EXCEPT !.metadata = MetaOf(s.metadataMapRef,
                                  ImageIdAt(l.imageIds, l.index)),
              !.loads = Replace(@, l, [l EXCEPT !.phase = "setStack"])]

\* updateStack between its two awaits (Viewer.tsx 1536-1581): setMetadata,
\* then viewport.setStack on the viewport it holds.
DecodeResolved(s, l) ==
    [s EXCEPT !.metadata = MetaOf(s.metadataMapRef, l.imageId),
              !.loads = Replace(@, l, [l EXCEPT !.phase = "setStack"])]

\* imageLoader.loadAndCacheImage of a suspended updateStack settles.
LoadDecoded ==
    \E l \in DOMAIN loads :
        /\ l.phase = "decode"
        /\ IF Decodable(metadataMapRef, l.imageId)
           THEN Step(DecodeResolved(Sess, l), {})
           ELSE Step(DecodeRejected(Sess, l), {})

\* updateStack after viewport.setStack resolved (Viewer.tsx 1583-1606):
\* viewport.getCanvas(), then the canvas takes the size of
\* viewportRef.current, which is null once the error screen is rendered;
\* then voiRange, reset and render.
StackResolved(s, l) ==
    IF ~DomMounted(s) THEN LoadFailed(s, l)
    ELSE IF l.vpDead
         THEN [s EXCEPT !.loads = Without(@, l)]
         ELSE [s EXCEPT !.stack = [imageIds |-> l.imageIds, index |-> l.index],
                        !.loads = Without(@, l)]

\* How viewport.setStack(imageIds, index) can settle: on a live viewport it
\* resolves if the image at index decodes and rejects if not; a viewport of
\* a destroyed engine may do either.
SetStackOutcomes(s, l) ==
    IF l.vpDead THEN BOOLEAN
    ELSE {Decodable(s.metadataMapRef, ImageIdAt(l.imageIds, l.index))}

\* viewport.setStack of a suspended updateStack settles.
LoadStackSet ==
    \E l \in DOMAIN loads :
        /\ l.phase = "setStack"
        /\ \E ok \in SetStackOutcomes(Sess, l) :
              IF ok THEN Step(StackResolved(Sess, l), {})
              ELSE Step(LoadFailed(Sess, l), {})

\* The setStack of the active-tool effect settles (Viewer.tsx 1647-1650).
RestoreDone ==
    /\ restore # NoStack
    /\ IF Decodable(metadataMapRef, ImageIdAt(restore.imageIds, restore.index))
       THEN Step([Sess EXCEPT !.stack = restore, !.restore = NoStack], {})
       ELSE Step([Sess EXCEPT !.restore = NoStack], {})

\* ------------------------------------------------------------------ Trial actions

\* handleFolderUpload of Trial (Trial.tsx 186-209) with processDicomFiles
\* (211-298), run to its end.
TrialHandleFolderUpload ==
    /\ trialMounted
    /\ trialPhase = "pending"
    /\ LET files == TrialFilter(picked)
           r == ProcessDicomFiles([grouped |-> <<>>, urls |-> blobUrlsRef,
                                   warned |-> consoleWarnings], files)
       IN  /\ trialPhase' = "done"
           /\ groupedSeries' = IF Len(files) > 0 THEN r.grouped
                               ELSE groupedSeries
           /\ blobUrlsRef' = r.urls
           /\ trialObjectURLs' =
                 trialObjectURLs \cup ((blobUrlsRef + 1)..r.urls)
           /\ consoleWarnings' = r.warned
    /\ UNCHANGED <<trialStack, selectedSeriesKey, trialToolModes,
                   trialActiveTool, trialMounted, uploadVars, viewerVars,
                   windowVars, singleVars, clockVars, exportVars, geometryVars, autoVars>>

\* handleSeriesClick (Trial.tsx 336-353) on the i-th series of the sidebar;
\* sort works in place, on the array the state holds.
HandleSeriesClick(i) ==
    LET sortedInstances == SortInstances(groupedSeries[i].instances) IN
    /\ groupedSeries' = [groupedSeries EXCEPT ![i].instances = sortedInstances]
    /\ trialStack' = [imageIds |-> ImageIdsOf(sortedInstances), index |-> 0]
    /\ selectedSeriesKey' = groupedSeries[i].seriesKey
    /\ UNCHANGED <<blobUrlsRef, consoleWarnings, trialPhase, trialToolModes,
                   trialActiveTool, trialObjectURLs, trialMounted, uploadVars,
                   viewerVars, windowVars, singleVars, clockVars, exportVars, geometryVars, autoVars>>

TrialSeriesClick ==
    /\ trialMounted
    /\ trialPhase = "done"
    /\ \E i \in 1..Len(groupedSeries) : HandleSeriesClick(i)

TrialTools == {"Pan", "Zoom", "WindowLevel", "StackScroll",
               "Length", "RectangleROI", "EllipticalROI", "Angle"}

AnnotationTools == {"Length", "RectangleROI", "EllipticalROI", "Angle"}

\* The tools that have a button (Trial.tsx 782-822).
TrialToolButtons == {"Pan"} \cup AnnotationTools

\* initializeCornerstone of Trial creates the tool group (Trial.tsx 117-163):
\* Pan, Zoom, WindowLevel and StackScroll are set active, each with its own
\* binding, the annotation tools passive.
TrialInitializeCornerstone ==
    /\ trialMounted
    /\ trialToolModes = NoToolGroup
    /\ trialToolModes' =
          [t \in TrialTools |->
              IF t \in AnnotationTools THEN "Passive" ELSE "Active"]
    /\ UNCHANGED <<groupedSeries, trialStack, selectedSeriesKey, blobUrlsRef,
                   consoleWarnings, trialPhase, trialActiveTool,
                   trialObjectURLs, trialMounted, uploadVars, viewerVars,
                   windowVars, singleVars, clockVars, exportVars, geometryVars, autoVars>>

\* activateTool of Trial (Trial.tsx 638-665).
TrialActivateTool(toolName) ==
    /\ trialMounted
    /\ IF trialToolModes = NoToolGroup
       THEN UNCHANGED <<trialToolModes, trialActiveTool>>
       ELSE /\ trialToolModes' =
                 [t \in TrialTools |->
                     IF t = toolName /\ toolName \notin {"Pan", "Zoom", "WindowLevel"}
                     THEN "Active"
                     ELSE IF t \in AnnotationTools THEN "Passive"
                     ELSE trialToolModes[t]]
            /\ trialActiveTool' = toolName
    /\ UNCHANGED <<groupedSeries, trialStack, selectedSeriesKey, blobUrlsRef,
                   consoleWarnings, trialPhase, trialObjectURLs, trialMounted,
                   uploadVars, viewerVars, windowVars, singleVars, clockVars, exportVars, geometryVars, autoVars>>

TrialToolClick == \E toolName \in TrialToolButtons : TrialActivateTool(toolName)

\* viewportRef.current of Trial: initializeCornerstone sets it before it
\* creates the tool group (Trial.tsx 112-119).
TrialViewportRef == trialToolModes # NoToolGroup

\* handleScroll of Trial (Trial.tsx 609-628), a listener of the element
\* that is rendered with and without images.
TrialHandleScroll(direction) ==
    /\ trialMounted
    /\ IF Throttled(trialSinceScroll, TrialScrollThrottleMs)
       THEN UNCHANGED <<trialStack, trialSinceScroll>>
       ELSE /\ trialSinceScroll' = 0
            /\ LET nextIndex == ScrollIndex(trialStack.index, direction,
                                            Len(trialStack.imageIds))
               IN  trialStack' =
                     IF nextIndex # trialStack.index /\ TrialViewportRef
                     THEN [trialStack EXCEPT !.index = nextIndex]
                     ELSE trialStack
    /\ UNCHANGED <<groupedSeries, selectedSeriesKey, blobUrlsRef,
                   consoleWarnings, trialPhase, trialToolModes,
                   trialActiveTool, trialObjectURLs, trialMounted,
                   sinceScroll, uploadVars, viewerVars, windowVars,
                   singleVars, exportVars, geometryVars, autoVars>>

TrialWheel == \E deltaY \in WheelDeltas : TrialHandleScroll(Sign(deltaY))

\* Time passes.
Tick ==
    /\ \E ms \in TickMs :
          /\ sinceScroll' = Min(ScrollThrottleMs, sinceScroll + ms)
          /\ trialSinceScroll' =
                Min(TrialScrollThrottleMs, trialSinceScroll + ms)
    /\ UNCHANGED <<uploadVars, viewerVars, trialVars, windowVars, singleVars,
                   exportVars, geometryVars, autoVars>>

\* Trial unmounts: the cleanup of its first effect (Trial.tsx 171-185)
\* revokes every URL of blobUrlsRef, empties the list and destroys the tool
\* group.
TrialUnmount ==
    /\ trialMounted
    /\ trialMounted' = FALSE
    /\ trialObjectURLs' = trialObjectURLs \ (1..blobUrlsRef)
    /\ blobUrlsRef' = 0
    /\ trialToolModes' = NoToolGroup
    /\ UNCHANGED <<groupedSeries, trialStack, selectedSeriesKey,
                   consoleWarnings, trialPhase, trialActiveTool, uploadVars,
                   viewerVars, windowVars, singleVars, clockVars, exportVars, geometryVars, autoVars>>

\* ------------------------------------------------------------------ specifications

\* A .dcm file of folder dir: ok is whether parseDicom accepts it, inst its
\* instance number (0020,0013), pix whether its pixel data decodes.  The
\* files of folder A are of series number 1, those of any other folder of
\* series number 2; a corrupt file has no tags.
MkImageFile(stem, dir, ok, inst, pix) ==
    [stem |-> stem, ext |-> "dcm",
     path |-> IF dir = <<>> THEN <<>> ELSE Append(dir, Str(stem)),
     ok |-> ok, inst |-> inst, pix |-> pix,
     seriesNumber |-> IF ~ok THEN 0
                      ELSE IF dir = <<Str("A")>> THEN 1 ELSE 2]

NonEmptySeqsUpTo(T, n) == UNION { [1..k -> T] : k \in 1..n }

\* Files of a batch to assemble: in folder A or B; corrupt (parseDicom
\* throws, no instance number is read) or with an instance number.
AssembleFiles ==
    { MkImageFile("f", dir, TRUE, inst, TRUE) :
        dir \in {<<Str("A")>>, <<Str("B")>>}, inst \in 1..MaxInstance }
    \cup { MkImageFile("bad", dir, FALSE, 0, TRUE) :
        dir \in {<<Str("A")>>, <<Str("B")>>} }

\* The props of a Viewer for the files picked: what either upload handler
\* hands on, and the props with no group at all.
AssembleInit ==
    /\ picked \in SeqsUpTo(AssembleFiles, MaxBatch)
    /\ uploadCall = "none"
    /\ uploadConsole = ""
    /\ fileData \in IF picked = <<>>
                    THEN {[files |-> <<>>, uploadType |-> "series",
                           seriesGroups |-> <<>>]}
                    ELSE {FolderUploadData(picked), FileUploadData(picked)}
    /\ ViewerInit
    /\ TrialInit
    /\ WindowInit
    /\ SingleInit
    /\ ClockInit
    /\ ExportInit
    /\ GeometryInit
    /\ AutoInit

AssembleNext ==
    \/ ProcessFilesDone
    \/ TrialHandleFolderUpload
    \/ TrialSeriesClick

\* processFiles of the Viewer, and handleFolderUpload and handleSeriesClick
\* of Trial, over every batch of up to MaxBatch files.
SpecAssemble == AssembleInit /\ [][AssembleNext]_vars

TeardownNext ==
    \/ ProcessFilesDone
    \/ TrialHandleFolderUpload
    \/ TrialSeriesClick
    \/ ViewerUnmount
    \/ TrialUnmount

\* A batch is assembled and the component is unmounted.
SpecTeardown == AssembleInit /\ [][TeardownNext]_vars

\* Files of a batch with thumbnails: in folder A or B; parseDicom accepts
\* them or not, and their pixel data decodes or not.
ThumbnailFiles ==
    { MkImageFile("f", dir, ok, 1, pix) :
        dir \in {<<Str("A")>>, <<Str("B")>>}, ok \in BOOLEAN, pix \in BOOLEAN }

ThumbnailInit ==
    /\ picked \in NonEmptySeqsUpTo(ThumbnailFiles, MaxBatch)
    /\ uploadCall = "none"
    /\ uploadConsole = ""
    /\ fileData = FolderUploadData(picked)
    /\ ViewerInit
    /\ TrialInit
    /\ WindowInit
    /\ SingleInit
    /\ ClockInit
    /\ ExportInit
    /\ GeometryInit
    /\ AutoInit

ThumbnailNext ==
    \/ ProcessFilesDone
    \/ TrialHandleFolderUpload

\* processFiles of the Viewer and handleFolderUpload of Trial over batches
\* with images that do not decode.
SpecThumbnail == ThumbnailInit /\ [][ThumbnailNext]_vars

\* Files of a session: in folder A or B; they parse, and their pixel data
\* decodes or does not.
SessionFiles ==
    { MkImageFile("f", dir, TRUE, 1, pix) :
        dir \in {<<Str("A")>>, <<Str("B")>>}, pix \in BOOLEAN }

\* The folder of the first file is called A.
SessionBatches ==
    { FolderUploadData(fs) :
        fs \in { q \in NonEmptySeqsUpTo(SessionFiles, MaxSession) :
                    q[1].path[1] = Str("A") } }

Init ==
    /\ fileData \in SessionBatches
    /\ picked = fileData.files
    /\ uploadCall = "folder"
    /\ uploadConsole = ""
    /\ ViewerInit
    /\ TrialInit
    /\ WindowInit
    /\ SingleInit
    /\ ClockInit
    /\ ExportInit
    /\ GeometryInit
    /\ AutoInit

Next ==
    \/ InitializeCoreDone
    \/ ProcessFilesDone
    \/ Wheel
    \/ KeyDown
    \/ PrevClick
    \/ NextClick
    \/ SeriesSelect
    \/ ActivateTool
    \/ LoadDecoded
    \/ LoadStackSet
    \/ RestoreDone

\* One Viewer session over one folder upload.
Spec == Init /\ [][Next]_vars

\* A folder of NavImages files that parse and decode: one series.
NavigateInit ==
    /\ picked = [i \in 1..NavImages |->
                    MkImageFile("f", <<Str("A")>>, TRUE, i, TRUE)]
    /\ fileData = FolderUploadData(picked)
    /\ uploadCall = "folder"
    /\ uploadConsole = ""
    /\ ViewerInit
    /\ TrialInit
    /\ WindowInit
    /\ SingleInit
    /\ ClockInit
    /\ ExportInit
    /\ GeometryInit
    /\ AutoInit

NavigateNext ==
    \/ InitializeCoreDone
    \/ ProcessFilesDone
    \/ Wheel
    \/ KeyDown
    \/ PrevClick
    \/ NextClick
    \/ LoadDecoded
    \/ LoadStackSet
    \/ RestoreDone

\* A Viewer session in which the user moves through one series.
SpecNavigate == NavigateInit /\ [][NavigateNext]_vars

\* The page shows the Viewer with one series of NavImages images, or Trial
\* with the same folder to upload.
ThrottleInit ==
    /\ picked = [i \in 1..NavImages |->
                    MkImageFile("f", <<Str("A")>>, TRUE, i, TRUE)]
    /\ fileData = FolderUploadData(picked)
    /\ uploadCall = "folder"
    /\ uploadConsole = ""
    /\ ViewerFields
    /\ TrialFields
    /\ viewerMounted \in BOOLEAN
    /\ trialMounted = ~viewerMounted
    /\ WindowInit
    /\ SingleInit
    /\ ClockInit
    /\ ExportInit
    /\ GeometryInit
    /\ AutoInit

ThrottleNext ==
    \/ InitializeCoreDone
    \/ ProcessFilesDone
    \/ WheelAt
    \/ LoadDecoded
    \/ LoadStackSet
    \/ RestoreDone
    \/ TrialInitializeCornerstone
    \/ TrialHandleFolderUpload
    \/ TrialSeriesClick
    \/ TrialWheel
    \/ Tick

\* A session of the Viewer, or of Trial, with wheel events and the time
\* between them.
SpecThrottle == ThrottleInit /\ [][ThrottleNext]_vars

ErrorNext ==
    \/ InitializeCoreDone
    \/ ProcessFilesDone
    \/ KeyDown
    \/ SeriesSelect
    \/ SeriesSelectKey
    \/ LoadDecoded
    \/ LoadStackSet
    \/ RestoreDone
    \/ BackToUpload

\* A Viewer session with the error screen and its button.
SpecError == Init /\ [][ErrorNext]_vars

ExportNext == Next \/ ExportImage

\* A Viewer session with the export button.
SpecExport == Init /\ [][ExportNext]_vars

\* What the tags (0028,1050) and (0028,1051) can hold: nothing, text that
\* is no number, a number, several numbers, Infinity.
WindowStrings ==
    { <<>>, <<Text>>, <<InfinityText>>,
      <<Digits(0)>>, <<Digits(40)>>, <<Digits(400)>>, <<Digits(-400)>>,
      <<Digits(40), Backslash, Digits(80)>> }

ImageRecords ==
    [windowCenter : WindowStrings, windowWidth : WindowStrings,
     modality : {"", "CT", "MR", "MONOCHROME"},
     photometricInterpretation : {"", "MONOCHROME2", "RGB"},
     bitsAllocated : {0, 8, 16}]

WindowSpecInit ==
    /\ picked = <<>>
    /\ uploadCall = "none"
    /\ uploadConsole = ""
    /\ fileData = NoFileData
    /\ ViewerInit
    /\ TrialInit
    /\ SingleInit
    /\ ClockInit
    /\ ExportInit
    /\ GeometryInit
    /\ AutoInit
    /\ imageRecord \in ImageRecords
    /\ voi = NoVoi
    /\ voiFiles = NoVoi

\* updateStack of the fileData-based Viewer applies the window of the image.
ApplyWindow ==
    /\ voi = NoVoi
    /\ voi' = ResolveWindow(imageRecord)
    /\ UNCHANGED <<imageRecord, voiFiles, uploadVars, viewerVars, trialVars,
                   singleVars, clockVars, exportVars, geometryVars, autoVars>>

\* updateStack of the files-based Viewer applies the window of the image.
ApplyWindowFiles ==
    /\ voiFiles = NoVoi
    /\ voiFiles' = ResolveWindowFiles(imageRecord)
    /\ UNCHANGED <<imageRecord, voi, uploadVars, viewerVars, trialVars,
                   singleVars, clockVars, exportVars, geometryVars, autoVars>>

WindowNext == ApplyWindow \/ ApplyWindowFiles

\* The window either Viewer applies, over the tags an image can have.
SpecWindow == WindowSpecInit /\ [][WindowNext]_vars

\* The geometry of the viewport and of the image on display, as one record.
Geo(module) ==
    [pixelModule |-> module, container |-> container, element |-> element,
     canvas |-> canvas, viewportZoom |-> viewportZoom,
     zoomLevel |-> zoomLevel, isViewportReady |-> isViewportReady]

\* The values dataset.uint16 returns for (0028,0010) and (0028,0011): the
\* tag is absent, zero, or a number of rows or columns.
PixelTagValues == {JsUndefined, JsNumber(0), JsNumber(256), JsNumber(512)}

BitsTagValues == {JsUndefined, JsNumber(0), JsNumber(16)}

\* The sizes the layout gives the container; it is hidden at 0.
ContainerSizes == [clientWidth : {0, 100, 300}, clientHeight : {0, 100, 200}]

\* What the Zoom tool left as viewport.getZoom() * 100.
ZoomPercents == {50, 100}

GeometrySpecInit ==
    /\ picked = <<>>
    /\ uploadCall = "none"
    /\ uploadConsole = ""
    /\ fileData = NoFileData
    /\ ViewerInit
    /\ TrialInit
    /\ WindowInit
    /\ SingleInit
    /\ ClockInit
    /\ ExportInit
    /\ AutoInit
    /\ pixelTags \in [rows : PixelTagValues, columns : PixelTagValues,
                      bitsAllocated : BitsTagValues]
    /\ pixelModule = NoPixelModule
    /\ pixelModuleFiles = NoPixelModule
    /\ container = [clientWidth |-> 0, clientHeight |-> 0]
    /\ element = NoSize
    /\ canvas = [width |-> 0, height |-> 0]
    /\ viewportZoom \in ZoomPercents
    /\ zoomLevel = 100

\* processFiles of the fileData-based Viewer stores the record of the file
\* (Viewer.tsx 1295-1317).
StoreRecord ==
    /\ pixelModule = NoPixelModule
    /\ pixelModule' = ImagePixelModule(pixelTags)
    /\ UNCHANGED <<pixelTags, pixelModuleFiles, container, element, canvas,
                   viewportZoom, zoomLevel, uploadVars, viewerVars, trialVars,
                   windowVars, singleVars, clockVars, exportVars, autoVars>>

\* processFiles of the files-based Viewer stores the record of the file
\* (Viewer.tsx 193-219).
StoreRecordFiles ==
    /\ pixelModuleFiles = NoPixelModule
    /\ pixelModuleFiles' = ImagePixelModuleFiles(pixelTags)
    /\ UNCHANGED <<pixelTags, pixelModule, container, element, canvas,
                   viewportZoom, zoomLevel, uploadVars, viewerVars, trialVars,
                   windowVars, singleVars, clockVars, exportVars, autoVars>>

\* The layout changes the size of the container.
ContainerResized ==
    /\ container' \in ContainerSizes \ {container}
    /\ UNCHANGED <<pixelTags, pixelModule, pixelModuleFiles, element, canvas,
                   viewportZoom, zoomLevel, uploadVars, viewerVars, trialVars,
                   windowVars, singleVars, clockVars, exportVars, autoVars>>

\* The state after the geometry r was computed: the sizes, zoomLevel, and
\* the render that setIsViewportReady causes.
ApplyGeometry(r) ==
    /\ element' = r.element
    /\ canvas' = r.canvas
    /\ zoomLevel' = r.zoomLevel
    /\ Render([Sess EXCEPT !.isViewportReady = r.isViewportReady],
              IF r.isViewportReady # isViewportReady
              THEN {"isViewportReady"} ELSE {})
    /\ UNCHANGED <<pixelTags, pixelModule, pixelModuleFiles, container,
                   viewportZoom, clockVars, exportVars, autoVars>>

\* The ResizeObserver of the fileData-based Viewer calls updateSize
\* (Viewer.tsx 1478).
ResizeObserved ==
    \E r \in {UpdateSizeGeometry(Geo(pixelModule))} : ApplyGeometry(r)

\* The timer of handleResize of the files-based Viewer fires
\* (Viewer.tsx 586-627).
ResizeObservedFiles ==
    \E r \in {HandleResizeGeometry(Geo(pixelModuleFiles))} : ApplyGeometry(r)

\* The viewport size effect of the files-based Viewer runs
\* (Viewer.tsx 297-357).
SizeEffectFiles ==
    \E r \in {SizeEffectGeometry(Geo(pixelModuleFiles),
                                 Len(SelectedImageIds(Sess)) > 0)} :
        ApplyGeometry(r)

\* actualSize (Viewer.tsx 1827-1837): viewport.setZoom(1.0), setZoomLevel(100)
ActualSize ==
    /\ viewportZoom' = 100
    /\ zoomLevel' = 100
    /\ UNCHANGED <<pixelTags, pixelModule, pixelModuleFiles, container,
                   element, canvas, uploadVars, viewerVars, trialVars,
                   windowVars, singleVars, clockVars, exportVars, autoVars>>

GeometryNext ==
    \/ StoreRecord
    \/ StoreRecordFiles
    \/ ContainerResized
    \/ ResizeObserved
    \/ ResizeObservedFiles
    \/ SizeEffectFiles
    \/ ActualSize

\* The records both Viewers store and the sizes they compute, over the tags
\* a file can have and the sizes a container can take.
SpecGeometry == GeometrySpecInit /\ [][GeometryNext]_vars

\* The longest run of equal pixels of a buffer.
MaxRun == 99

\* The pixel values and the numbers of pixels that have them.
PixelValues == {-3000, 0, 1, 60, 7000}

PixelCounts == {0, 1, MaxRun}

\* The buffers: every bag of pixel values with at least one pixel.
ScalarBuffers ==
    { [v \in { u \in PixelValues : c[u] > 0 } |-> c[v]] :
          c \in [PixelValues -> PixelCounts] \ {[u \in PixelValues |-> 0]} }

Modalities == {NoModality, "Unknown", "CT", "ct", "MR", "US", "CR", "DX"}

\* An image is on the viewport of Trial and its series has a modality.
AutoSpecInit ==
    /\ picked = <<>>
    /\ uploadCall = "none"
    /\ uploadConsole = ""
    /\ fileData = NoFileData
    /\ ViewerInit
    /\ TrialInit
    /\ WindowInit
    /\ SingleInit
    /\ ClockInit
    /\ ExportInit
    /\ GeometryInit
    /\ scalarData \in ScalarBuffers
    /\ seriesModality \in Modalities
    /\ viewportWindow = NoWindow
    /\ windowLevel = DefaultWindowLevel

\* loadDicomImage after viewport.getImageData() (Trial.tsx 366-506):
\* viewport.setProperties and setWindowLevel.
LoadDicomImage ==
    /\ BagCardinality(scalarData) > 0
    /\ \E w \in {AutoWindow(scalarData, seriesModality)} :
          /\ viewportWindow' = w
          /\ windowLevel' = [width  |-> FracRound(w.windowWidth),
                             center |-> FracRound(w.windowCenter)]
    /\ UNCHANGED <<scalarData, seriesModality, uploadVars, viewerVars,
                   trialVars, windowVars, singleVars, clockVars, exportVars,
                   geometryVars>>

AutoNext == LoadDicomImage

\* The automatic window of loadDicomImage, over integer pixel buffers and
\* modalities.
SpecAuto == AutoSpecInit /\ [][AutoNext]_vars

\* The page shows the Viewer, with the files of a folder upload, or the
\* single-file Trial.
EnginesInit ==
    \/ Init
    \/ /\ picked = <<>>
       /\ uploadCall = "none"
       /\ uploadConsole = ""
       /\ fileData = NoFileData
       /\ ViewerFields /\ viewerMounted = FALSE
       /\ TrialInit
       /\ WindowInit
       /\ SingleFields /\ singleMounted = TRUE
       /\ ClockInit
       /\ ExportInit
       /\ GeometryInit
       /\ AutoInit
    /\ AutoInit

EnginesNext ==
    \/ Next
    \/ SingleInitializeDone
    \/ SingleHandleFileUpload
    \/ SingleStackSettled
    \/ SingleDeadline
    \/ SingleLateSettled
    \/ SingleUnmount

\* A session of the Viewer, or of the single-file Trial.
SpecEngines == EnginesInit /\ [][EnginesNext]_vars

\* The steps that follow an upload without a further act of the user.
DeadlineNext ==
    \/ InitializeCoreDone
    \/ ProcessFilesDone
    \/ LoadDecoded
    \/ LoadStackSet
    \/ RestoreDone
    \/ SingleInitializeDone
    \/ SingleHandleFileUpload
    \/ SingleStackSettled
    \/ SingleDeadline
    \/ SingleLateSettled

\* Initialization, the processing of the files and every continuation that
\* is ready run, and a timer that is set fires. The promises of
\* imageLoader.loadAndCacheImage (Viewer.tsx 1535) and of viewport.setStack
\* inside loadImageWithProgress (Trial.tsx 1187) are settled by the image
\* loader: nothing in the components makes them settle.
DeadlineFairness ==
    /\ WF_vars(InitializeCoreDone)
    /\ WF_vars(ProcessFilesDone)
    /\ WF_vars(LoadStackSet)
    /\ WF_vars(RestoreDone)
    /\ WF_vars(SingleInitializeDone)
    /\ WF_vars(SingleDeadline)

\* A session in which a decode may never resolve.
SpecDeadline == EnginesInit /\ [][DeadlineNext]_vars /\ DeadlineFairness

ToolsNext == Next \/ TrialInitializeCornerstone \/ TrialToolClick

\* A Viewer session and the tool buttons of Trial.
SpecTools == Init /\ [][ToolsNext]_vars

ToolChangeNext ==
    \/ InitializeCoreDone
    \/ ProcessFilesDone
    \/ KeyDown
    \/ SeriesSelect
    \/ ActivateTool
    \/ LoadDecoded
    \/ LoadStackSet
    \/ RestoreDone

\* A Viewer session in which the user changes the tool, moves with the keys
\* and selects series.
SpecToolChange == Init /\ [][ToolChangeNext]_vars

SelectNext ==
    \/ InitializeCoreDone
    \/ ProcessFilesDone
    \/ KeyDown
    \/ SeriesSelect
    \/ SeriesSelectKey
    \/ LoadDecoded
    \/ LoadStackSet
    \/ RestoreDone

\* A Viewer session in which handleSeriesSelect is called with known and
\* unknown keys.
SpecSelect == Init /\ [][SelectNext]_vars

\* The promise of initializeCore settles.  A series is selected only after
\* processFiles has ended, and the image loader settles the decodes.
SelectFairness == WF_vars(InitializeCoreDone)

\* The session of SpecSelect in which every pending promise settles.
SpecSelectFair == Init /\ [][SelectNext]_vars /\ SelectFairness

\* ------------------------------------------------------------------ FileUpload

UploadInit ==
    /\ picked \in SeqsUpTo(PickedFiles, MaxPicked)
    /\ uploadCall = "none"
    /\ uploadConsole = ""
    /\ fileData = NoFileData
    /\ ViewerInit
    /\ TrialInit
    /\ WindowInit
    /\ SingleInit
    /\ ClockInit
    /\ ExportInit
    /\ GeometryInit
    /\ AutoInit

\* handleFolderUpload(files), FileUpload.tsx 115-161
HandleFolderUpload(files) ==
    LET filteredFiles == FilterDcm(files) IN
    /\ uploadCall' = "folder"
    /\ fileData' = IF Len(filteredFiles) = 0
                   THEN fileData
                   ELSE FolderUploadData(filteredFiles)
    /\ uploadConsole' = IF Len(filteredFiles) = 0
                        THEN "No valid DICOM files selected."
                        ELSE uploadConsole
    /\ UNCHANGED <<picked, viewerVars, trialVars, windowVars, singleVars, clockVars, exportVars, geometryVars, autoVars>>

FolderUpload == uploadCall = "none" /\ HandleFolderUpload(picked)

\* handleFileUpload(files), FileUpload.tsx 73-112
HandleFileUpload(files) ==
    LET filteredFiles == FilterDcm(files) IN
    /\ uploadCall' = "file"
    /\ fileData' = IF Len(filteredFiles) = 0
                   THEN fileData
                   ELSE FileUploadData(filteredFiles)
    /\ uploadConsole' = IF Len(filteredFiles) = 0
                        THEN "No valid DICOM files selected."
                        ELSE uploadConsole
    /\ UNCHANGED <<picked, viewerVars, trialVars, windowVars, singleVars, clockVars, exportVars, geometryVars, autoVars>>

FileUpload == uploadCall = "none" /\ HandleFileUpload(picked)

\* The texts FileUpload renders (FileUpload.tsx 343-443): the headings and
\* buttons of its two cards; its JSX reads no state but the two dragging
\* flags, which change colours only.
UploadScreenTexts ==
    { "DICOM Viewer",
      "Upload DICOM files or folders to visualize medical imaging data",
      "DICOM Files", "Upload individual DICOM files (.dcm)", "Select Files",
      "or drag files here",
      "DICOM Folders",
      "Upload study or series folders containing DICOM files",
      "Select Folder", "or drag folder here" }

UploadNext == FolderUpload \/ FileUpload

SpecUpload == UploadInit /\ [][UploadNext]_vars

\* ------------------------------------------------------------------ claims: upload

\* The immediate parent folders the accepted files really have (a file without
\* a relative path has none).
RealParents(files) ==
    { files[i].path[Len(files[i].path) - 1] :
        i \in { j \in 1..Len(files) : Len(files[j].path) >= 2 } }

AllHavePaths(files) == \A i \in 1..Len(files) : Len(files[i].path) >= 2

AnyDeeperThanTwo(files) == \E i \in 1..Len(files) : Len(files[i].path) > 2

AllDirectlyInOneFolder(files) ==
    /\ \A i \in 1..Len(files) : Len(files[i].path) = 2
    /\ \A i, j \in 1..Len(files) : files[i].path[1] = files[j].path[1]

FolderUploadDone == uploadCall = "folder" /\ fileData # NoFileData

\* C10: a folder upload is a 'study' when its accepted files have more than one
\* distinct immediate parent folder or some relative path has more than two
\* segments (and, when every file carries a path, only then); it is a 'series'
\* with one group when all files sit directly in one folder; files in two
\* distinct parent folders give at least two series groups.
C10_StudyVsSeries ==
    FolderUploadDone =>
        LET fs == fileData.files IN
        /\ (Cardinality(RealParents(fs)) > 1 \/ AnyDeeperThanTwo(fs))
              => fileData.uploadType = "study"
        /\ AllHavePaths(fs) /\ fileData.uploadType = "study"
              => (Cardinality(RealParents(fs)) > 1 \/ AnyDeeperThanTwo(fs))
        /\ AllDirectlyInOneFolder(fs)
              => fileData.uploadType = "series" /\ Len(fileData.seriesGroups) = 1
        /\ Cardinality(RealParents(fs)) > 1
              => Len(fileData.seriesGroups) > 1

\* C10 witness: one parent folder only, but a path three segments deep: a study.
C10_Witness ==
    /\ FolderUploadDone
    /\ Cardinality(RealParents(fileData.files)) = 1
    /\ AnyDeeperThanTwo(fileData.files)
    /\ Len(fileData.files) > 1
    /\ fileData.uploadType = "study"

FileUploadDone == uploadCall = "file" /\ fileData # NoFileData

\* C11: after a file upload every accepted file is its own group: there are
\* as many groups as accepted files, the i-th group holds the i-th accepted
\* file and nothing else, and no two groups have the same key, also when two
\* accepted files have the same name.
C11_FilePerGroup ==
    FileUploadDone =>
        LET accepted == FilterDcm(picked)
            groups   == fileData.seriesGroups
        IN  /\ fileData.files = accepted
            /\ Len(groups) = Len(accepted)
            /\ \A i \in 1..Len(groups) : groups[i].files = <<accepted[i]>>
            /\ \A i, j \in 1..Len(groups) :
                  i # j => groups[i].key # groups[j].key

\* C11 witness: a file upload of two files of one name (from two folders).
C11_Witness ==
    /\ FileUploadDone
    /\ Len(fileData.files) = 2
    /\ FileName(fileData.files[1]) = FileName(fileData.files[2])
    /\ fileData.files[1] # fileData.files[2]
    /\ Len(fileData.seriesGroups) = 2

\* ------------------------------------------------------------------ claims: assembling

RECURSIVE ParsedOf(_)
ParsedOf(files) ==
    IF files = <<>> THEN <<>>
    ELSE IF Head(files).ok THEN <<Head(files)>> \o ParsedOf(Tail(files))
         ELSE ParsedOf(Tail(files))

RECURSIVE FailedNamesOf(_)
FailedNamesOf(files) ==
    IF files = <<>> THEN <<>>
    ELSE IF Head(files).ok THEN FailedNamesOf(Tail(files))
         ELSE <<FileName(Head(files))>> \o FailedNamesOf(Tail(files))

RECURSIVE FailedNamesOfGroups(_)
FailedNamesOfGroups(groups) ==
    IF groups = <<>> THEN <<>>
    ELSE FailedNamesOf(Head(groups).files) \o FailedNamesOfGroups(Tail(groups))

AllFailed(files) == ParsedOf(files) = <<>>

\* The instance numbers of a series' images, in the order of its image list.
SeriesInstanceNumbers(series) ==
    [k \in 1..Len(series.imageIds) |->
        metadataMapRef[series.imageIds[k]].instanceNumber]

TagsOf(files) == [k \in 1..Len(files) |-> files[k].inst]

ViewerAssembled == procPhase = "done"

TrialAssembled == trialPhase = "done"

\* C4: every series in the list processFiles produces has at least one
\* image, and a group whose every file failed to parse has no series in it.
C4_NonEmptySeries ==
    ViewerAssembled =>
        /\ \A i \in 1..Len(seriesList) : Len(seriesList[i].imageIds) >= 1
        /\ \A g \in 1..Len(fileData.seriesGroups) :
              AllFailed(fileData.seriesGroups[g].files)
                 => FindSeries(seriesList, fileData.seriesGroups[g].key) = 0

\* C4 witness: a batch of which one group failed as a whole and another
\* group gave a series.
C4_Witness ==
    /\ ViewerAssembled
    /\ Len(seriesList) >= 1
    /\ \E g \in 1..Len(fileData.seriesGroups) :
          AllFailed(fileData.seriesGroups[g].files)

\* C5: within every series processFiles assembles, the images are in
\* ascending instanceNumber order, whatever the order of the input files.
C5_AscendingInstanceNumber ==
    ViewerAssembled =>
        \A i \in 1..Len(seriesList) :
            LET n == SeriesInstanceNumbers(seriesList[i]) IN
            \A k \in 1..(Len(n) - 1) : n[k] <= n[k + 1]

\* Image ids are numbered as their URLs are created, file after file: of two
\* images of a series the one with the smaller id came first in the input.
StableByInput(imageIds, numbers) ==
    \A k, m \in 1..Len(imageIds) :
        (k < m /\ numbers[k] = numbers[m]) => imageIds[k] < imageIds[m]

InstanceTags(instances) ==
    [k \in 1..Len(instances) |-> instances[k].instanceNumber]

\* C6: within a series, two images of equal instanceNumber have the relative
\* order their files had in the input: in the image lists of the Viewer, in
\* the instances of Trial before and after handleSeriesClick has sorted them,
\* and in the stack handleSeriesClick sets.
C6_StableOrder ==
    /\ ViewerAssembled =>
          \A i \in 1..Len(seriesList) :
              StableByInput(seriesList[i].imageIds,
                            SeriesInstanceNumbers(seriesList[i]))
    /\ \A i \in 1..Len(groupedSeries) :
          /\ StableByInput(ImageIdsOf(groupedSeries[i].instances),
                           InstanceTags(groupedSeries[i].instances))
          /\ groupedSeries[i].seriesKey = selectedSeriesKey =>
                /\ trialStack.imageIds = ImageIdsOf(groupedSeries[i].instances)
                /\ \A k \in 1..(Len(groupedSeries[i].instances) - 1) :
                      groupedSeries[i].instances[k].instanceNumber
                         <= groupedSeries[i].instances[k + 1].instanceNumber

\* C6 witness: handleSeriesClick has reordered a series that holds two
\* images of one instance number, and the Viewer holds such a series too.
C6_Witness ==
    /\ ViewerAssembled
    /\ \E i \in 1..Len(seriesList) :
          \E k, m \in 1..Len(seriesList[i].imageIds) :
              /\ k < m
              /\ SeriesInstanceNumbers(seriesList[i])[k]
                    = SeriesInstanceNumbers(seriesList[i])[m]
    /\ selectedSeriesKey # NoUID
    /\ \E k, m \in 1..Len(trialStack.imageIds) :
          /\ k < m
          /\ trialStack.imageIds[k] > trialStack.imageIds[m]
    /\ \E i \in 1..Len(groupedSeries) :
          /\ groupedSeries[i].seriesKey = selectedSeriesKey
          /\ \E k \in 1..(Len(groupedSeries[i].instances) - 1) :
                groupedSeries[i].instances[k].instanceNumber
                   = groupedSeries[i].instances[k + 1].instanceNumber

\* The parsed files of the batch that Trial puts in the series with this key.
RECURSIVE TrialFilesOf(_, _)
TrialFilesOf(files, key) ==
    IF files = <<>> THEN <<>>
    ELSE IF Head(files).ok /\ TrialSeriesKey(Head(files)) = key
         THEN <<Head(files)>> \o TrialFilesOf(Tail(files), key)
         ELSE TrialFilesOf(Tail(files), key)

\* C7: a file that fails to parse is skipped and reported with its name,
\* every other file of the batch is placed in its series, and processing
\* does not throw: in processFiles of the Viewer (the names are in the error
\* it sets) and in processDicomFiles of Trial (the names are in console
\* warnings; its instances are compared before handleSeriesClick sorts them).
C7_PartialFailure ==
    /\ procPhase # "threw"
    /\ ViewerAssembled =>
          /\ Len(FailedNamesOfGroups(fileData.seriesGroups)) > 0
                => error = FailedToProcess(
                              FailedNamesOfGroups(fileData.seriesGroups))
          /\ \A g \in 1..Len(fileData.seriesGroups) :
                LET group == fileData.seriesGroups[g]
                    i     == FindSeries(seriesList, group.key)
                IN  ~AllFailed(group.files) =>
                       /\ i # 0
                       /\ SeriesInstanceNumbers(seriesList[i])
                             = TagsOf(ParsedOf(group.files))
                       /\ \A k \in 1..Len(seriesList[i].imageIds) :
                             metadataMapRef[seriesList[i].imageIds[k]]
                                .seriesInstanceUID = group.key
    /\ TrialAssembled /\ selectedSeriesKey = NoUID =>
          /\ consoleWarnings = FailedNamesOf(picked)
          /\ \A j \in 1..Len(picked) :
                picked[j].ok =>
                   \E i \in 1..Len(groupedSeries) :
                       /\ groupedSeries[i].seriesKey = TrialSeriesKey(picked[j])
                       /\ InstanceTags(groupedSeries[i].instances)
                             = TagsOf(TrialFilesOf(picked,
                                                   TrialSeriesKey(picked[j])))

\* C7 witness: one corrupt and one valid file have given one series and one
\* reported failure, in the Viewer and in Trial.
C7_Witness ==
    /\ Len(picked) = 2
    /\ Len(FailedNamesOf(picked)) = 1
    /\ ViewerAssembled
    /\ Len(seriesList) = 1
    /\ Len(error.files) = 1
    /\ TrialAssembled
    /\ Len(groupedSeries) = 1
    /\ Len(consoleWarnings) = 1

\* C8: a batch of which at least one file parsed and at least one failed
\* leaves the viewer on screen, with its series, not the error screen.
C8_MixedBatchShowsViewer ==
    (/\ ViewerAssembled
     /\ ParsedOf(fileData.files) # <<>>
     /\ FailedNamesOf(fileData.files) # <<>>)
        => ViewerShown /\ Len(seriesList) > 0

Resumes(l) ==
    \/ loads' = Without(loads, l)
    \/ \E m \in DOMAIN loads' :
          /\ m # l
          /\ m.imageIds = l.imageIds /\ m.index = l.index
          /\ m.vpDead = l.vpDead /\ m.latest = l.latest
          /\ loads' = Replace(loads, l, m)

\* The step takes the call l from its decode to viewport.setStack, on the
\* viewport the call holds.
CallsSetStack(l) ==
    /\ l.phase = "decode"
    /\ loads' = Replace(loads, l, [l EXCEPT !.phase = "setStack"])

\* C1: when an updateStack call that a later call has followed resumes, it
\* changes nothing of the session: the metadata, the stack on display and
\* the error stay those of the later load.
C1_StaleLoadSuppressed ==
    [][\A l \in DOMAIN loads :
          (~l.latest /\ Resumes(l)) =>
              /\ metadata' = metadata
              /\ stack' = stack
              /\ error' = error]_vars

\* C2: a load still outstanding when the user navigates on is dropped when
\* it resumes: it does not put a session that shows the viewer into the
\* error state, and it calls no viewport of a rendering engine that the
\* cleanup of the setup effect has destroyed.
C2_StaleLoadDropped ==
    [][\A l \in DOMAIN loads :
          (~l.latest /\ Resumes(l)) =>
              /\ ~(l.vpDead /\ CallsSetStack(l))
              /\ ViewerShown => ViewerShown']_vars

\* C3: whenever the selected series is in the list, currentIndex is an index
\* of one of its images, after any wheel events, arrow keys, previous and
\* next clicks and series selections.
C3_IndexInRange ==
    LET i == FindSeries(seriesList, selectedSeriesUID) IN
    i # 0 =>
        /\ 0 <= currentIndex
        /\ currentIndex <= Len(seriesList[i].imageIds) - 1

\* C3 witness: navigation has reached the last image of a series of more
\* than one image, where a further step forward is clamped.
C3_Witness ==
    LET i == FindSeries(seriesList, selectedSeriesUID) IN
    /\ i # 0
    /\ Len(seriesList[i].imageIds) > 1
    /\ currentIndex = Len(seriesList[i].imageIds) - 1
    /\ ViewerShown /\ isViewportReady

\* C18: at every moment at most one rendering engine is alive, and it is the
\* engine the ref holds: the Viewer creates an engine only when the ref is
\* null and its cleanup destroys the engine and nulls the ref; the
\* single-file Trial destroys the engine of the ref before it creates the
\* next one.
C18_OneEngine ==
    /\ enginesAlive <= 1
    /\ (enginesAlive = 1) <=> renderingEngineRef
    /\ singleEnginesAlive <= 1
    /\ (singleEnginesAlive = 1) <=> (singleEngineRef = "alive")

\* A second file was rendered while the load of the first was still
\* pending: the engine of the first render is gone, one engine is alive.
C18_Witness ==
    /\ singleUploads = 2
    /\ singlePending = 2
    /\ singleEnginesAlive = 1

\* C19: every started image load eventually ends, in success or in failure,
\* also when its decode never resolves: no load of the Viewer and no load of
\* the single-file Trial stays pending forever.
C19_LoadDeadline ==
    /\ (loads # EmptyBag) ~> (loads = EmptyBag)
    /\ (singlePending > 0) ~> (singlePending = 0)

\* The part of C19 the single-file Trial keeps: the 60 s timer of
\* loadImageWithProgress ends every load.
C19_SingleDeadlineHolds == (singlePending > 0) ~> (singlePending = 0)

\* The stack of the current render: the images of the selected series and
\* the current index.
CurrentStack ==
    [imageIds |-> SelectedImageIds(Sess), index |-> currentIndex]

\* C21: activateTool changes only the active tool: the selected series, the
\* current index and the series list stay, no updateStack call is started,
\* and when the tool changed while an image is on display, the stack of the
\* current render (same image list, same index) is set again on the
\* viewport.
C21_ActivateToolFrame ==
    [][\A toolName \in Tools :
          (ViewerShown /\ activeTool' = toolName /\ SetActiveTool(toolName)) =>
              /\ selectedSeriesUID' = selectedSeriesUID
              /\ currentIndex' = currentIndex
              /\ seriesList' = seriesList
              /\ BagCardinality(loads') = BagCardinality(loads)
              /\ (toolName # activeTool /\ stack # NoStack) =>
                     restore' = CurrentStack]_vars

\* The tool was changed after the user moved to another image and its load
\* had ended: the engine is new, no load is pending, and the stack of the
\* current render is being set again by the tool effect.
C21_Witness ==
    /\ ViewerShown
    /\ activeTool = "Zoom"
    /\ currentIndex > 0
    /\ loads = EmptyBag
    /\ stack = NoStack
    /\ restore # NoStack
    /\ restore = CurrentStack

\* clamp(x, lo, hi)
Clamp(x, lo, hi) == IF x < lo THEN lo ELSE IF x > hi THEN hi ELSE x

\* The step the arrow keys stand for.
KeyDirection(key) == IF key = "ArrowLeft" THEN -1 ELSE 1

\* C22: a wheel event that passes the throttle, whatever its deltaY, and an
\* ArrowLeft or ArrowRight key press set currentIndex to
\* clamp(currentIndex + sign, 0, len - 1) of the selected series; no wheel
\* event and no key press moves the index by more than one.
C22_OneStepNavigation ==
    [][/\ \A deltaY \in WheelDeltas :
             (selectedSeriesUID # NoUID
                /\ HandleScroll(Sign(deltaY), ScrollThrottleMs)) =>
                 currentIndex' = Clamp(currentIndex + Sign(deltaY), 0,
                                       Len(SelectedImageIds(Sess)) - 1)
       /\ \A key \in {"ArrowLeft", "ArrowRight"} :
             (selectedSeriesUID # NoUID /\ HandleKeyDown(key)) =>
                 currentIndex' = Clamp(currentIndex + KeyDirection(key), 0,
                                       Len(SelectedImageIds(Sess)) - 1)
       /\ (Wheel \/ KeyDown) =>
             /\ currentIndex' - currentIndex \in {-1, 0, 1}
             /\ selectedSeriesUID' = selectedSeriesUID]_vars

\* The user has moved, one image per event, to the third image of a
\* series, and it is on display.
C22_Witness ==
    /\ ViewerShown
    /\ Len(SelectedImageIds(Sess)) >= 3
    /\ currentIndex = 2
    /\ stack = CurrentStack

\* One step in the direction d from index, within a list of len images: the
\* next index is index + d, or index where index + d is outside the list.
OneStep(index, next, d, len) ==
    IF index + d \in 0..(len - 1) THEN next = index + d ELSE next = index

\* The part of C23 about the Viewer, with its interval of 300 ms.
C23_ViewerThrottle ==
    [][\A deltaY \in WheelDeltas :
          HandleScrollAt(Sign(deltaY)) =>
              IF sinceScroll < ScrollThrottleMs
              THEN /\ currentIndex' = currentIndex
                   /\ sinceScroll' = sinceScroll
                   /\ loads' = loads
                   /\ stack' = stack
              ELSE /\ sinceScroll' = 0
                   /\ OneStep(currentIndex, currentIndex', Sign(deltaY),
                              Len(SelectedImageIds(Sess)))]_vars

\* The part of C23 Trial keeps, with its interval of 100 ms: while a series
\* is on display in the viewport initializeCornerstone has created.
C23_TrialThrottle ==
    [][\A deltaY \in WheelDeltas :
          TrialHandleScroll(Sign(deltaY)) =>
              IF trialSinceScroll < TrialScrollThrottleMs
              THEN /\ trialStack' = trialStack
                   /\ trialSinceScroll' = trialSinceScroll
              ELSE /\ trialSinceScroll' = 0
                   /\ trialStack'.imageIds = trialStack.imageIds
                   /\ (Len(trialStack.imageIds) > 0 /\ TrialViewportRef) =>
                         OneStep(trialStack.index, trialStack'.index,
                                 Sign(deltaY), Len(trialStack.imageIds))]_vars

\* C23: a wheel event that arrives less than the throttle interval (300 ms
\* in the Viewer, 100 ms in Trial) after the last accepted one changes
\* nothing; an accepted event starts a new interval and moves the index by
\* one step in the scroll direction, staying where the list ends; so there
\* is at most one index step per interval.
C23_WheelThrottle ==
    [][\A deltaY \in WheelDeltas :
          /\ HandleScrollAt(Sign(deltaY)) =>
                IF sinceScroll < ScrollThrottleMs
                THEN /\ currentIndex' = currentIndex
                     /\ sinceScroll' = sinceScroll
                ELSE /\ sinceScroll' = 0
                     /\ OneStep(currentIndex, currentIndex', Sign(deltaY),
                                Len(SelectedImageIds(Sess)))
          /\ TrialHandleScroll(Sign(deltaY)) =>
                IF trialSinceScroll < TrialScrollThrottleMs
                THEN /\ trialStack' = trialStack
                     /\ trialSinceScroll' = trialSinceScroll
                ELSE /\ trialSinceScroll' = 0
                     /\ OneStep(trialStack.index, trialStack'.index,
                                Sign(deltaY), Len(trialStack.imageIds))]_vars

\* The viewport shows an image and metadata is the metadata of that image.
DisplayedWithMetadata ==
    /\ stack # NoStack
    /\ metadata # NoMetadata
    /\ metadata.imageId = ImageIdAt(stack.imageIds, stack.index)

\* C24: exportImage produces a file only when an image is displayed and its
\* metadata is present: in every other state it sets the error "No image
\* loaded to export." and produces no file.
C24_ExportPrecondition ==
    [][(ExportImage /\ ~DisplayedWithMetadata) =>
          /\ error' = Err("No image loaded to export.")
          /\ download' = download]_vars

\* The part of C24 the Viewer keeps: without metadata exportImage sets the
\* error and produces no file.
C24_NoMetadataNoFile ==
    [][(ExportImage /\ metadata = NoMetadata) =>
          /\ error' = Err("No image loaded to export.")
          /\ download' = download]_vars

\* The geometries the size computation can be called with in this state: of
\* either Viewer, whatever isViewportReady is.
GeometriesHere ==
    { [Geo(m) EXCEPT !.isViewportReady = ready] :
        m \in {pixelModule, pixelModuleFiles}, ready \in BOOLEAN }

\* What a size computation may write: the sizes of element and canvas, and
\* zoomLevel.
SameButSizes(g, h) ==
    /\ h.pixelModule = g.pixelModule
    /\ h.container = g.container
    /\ h.viewportZoom = g.viewportZoom
    /\ h.isViewportReady = g.isViewportReady

StoredRecords == {pixelModule, pixelModuleFiles} \ {NoPixelModule}

\* C28: every stored image record has rows >= 1, columns >= 1 and
\* bitsAllocated >= 1, and a tag that is absent or zero is stored as 512
\* (rows), 512 (columns) and 16 (bitsAllocated).
C28_GeometryDefaults ==
    \A m \in StoredRecords :
        /\ m.rows >= 1 /\ m.columns >= 1 /\ m.bitsAllocated >= 1
        /\ Falsy(pixelTags.rows) => m.rows = 512
        /\ Falsy(pixelTags.columns) => m.columns = 512
        /\ Falsy(pixelTags.bitsAllocated) => m.bitsAllocated = 16

\* The part of C28 both Viewers keep: no stored record has a zero or unset
\* rows, columns or bitsAllocated, and rows and columns default to 512.
C28_GeometrySet ==
    \A m \in StoredRecords :
        /\ m.rows >= 1 /\ m.columns >= 1 /\ m.bitsAllocated >= 1
        /\ Falsy(pixelTags.rows) => m.rows = 512
        /\ Falsy(pixelTags.columns) => m.columns = 512

\* The part of C28 about bitsAllocated, of the fileData-based Viewer alone.
C28_BitsDefault ==
    (pixelModule # NoPixelModule /\ Falsy(pixelTags.bitsAllocated))
        => pixelModule.bitsAllocated = 16

\* What the user can do on the screen the Viewer shows.
UserActions ==
    \/ Wheel
    \/ KeyDown
    \/ PrevClick
    \/ NextClick
    \/ SeriesSelect
    \/ SeriesSelectKey
    \/ ActivateTool
    \/ ExportImage
    \/ BackToUpload

\* C26: the error state is recoverable: while the session shows an error the
\* series list and the selection stay as they are, and the user can take an
\* action that ends the error state (back to the upload, or to another
\* series).
C26_ErrorRecoverable ==
    /\ [](error # NoError => ENABLED (UserActions /\ error' = NoError))
    /\ [][(error # NoError /\ procPhase' = procPhase) =>
             /\ seriesList' = seriesList
             /\ selectedSeriesUID' = selectedSeriesUID]_vars

\* The part of C26 the Viewer keeps: an error leaves the series list and the
\* selection as they are; only processFiles, when it ends during the error
\* of a failed initialization, sets them.
C26_ErrorKeepsSeries ==
    [][(error # NoError /\ procPhase' = procPhase) =>
          /\ seriesList' = seriesList
          /\ selectedSeriesUID' = selectedSeriesUID]_vars

\* No action of the user ends an error.
C26_ErrorAbsorbsUser ==
    [][(error # NoError /\ error' = NoError) => procPhase' # procPhase]_vars

\* An upload handler was called with files none of which is a .dcm file.
NoValidUpload == uploadCall # "none" /\ FilterDcm(picked) = <<>>

\* C27: after an upload without a valid .dcm file (only files of other
\* types, or no file at all) the message of the rejection is on the screen
\* and the viewer has received no file data.
C27_NoValidUploadMessage ==
    NoValidUpload =>
        /\ uploadConsole # ""
        /\ uploadConsole \in UploadScreenTexts
        /\ fileData = NoFileData

\* The part of C27 FileUpload keeps: the rejected upload hands nothing to the
\* viewer, and the message goes to the console.
C27_NoValidUploadDropped ==
    NoValidUpload =>
        /\ uploadConsole = "No valid DICOM files selected."
        /\ fileData = NoFileData

\* C29: after a failed initialization the session shows the initialization
\* error, initialization does not run again, and no updateStack call loads
\* an image.
C29_InitFailureFatal ==
    /\ [](initPhase = "failed" =>
            /\ error = Err("Initialization failed")
            /\ loads = EmptyBag)
    /\ [][initPhase = "failed" => initPhase' = "failed"]_vars

\* The part of C29 the Viewer keeps: after a failed initialization nothing is
\* initialized later, no rendering engine is created and no image is loaded.
C29_InitFailureLoadsNothing ==
    /\ [](initPhase = "failed" =>
            /\ ~isWadoInitialized
            /\ ~renderingEngineRef
            /\ enginesAlive = 0
            /\ stack = NoStack
            /\ loads = EmptyBag)
    /\ [][initPhase = "failed" => initPhase' = "failed"]_vars

\* The thumbnail C30 asks for, of a series whose first parsed file is file.
ThumbnailOrPlaceholder(file) == IF file.pix THEN "image" ELSE "placeholder"

\* Every parsed file of the batch is in its series, in the Viewer and in
\* Trial: no file is lost and processing went on to the last file.
EveryParsedFileKept ==
    /\ procPhase # "threw"
    /\ ViewerAssembled =>
          \A g \in 1..Len(fileData.seriesGroups) :
              LET group == fileData.seriesGroups[g]
                  i     == FindSeries(seriesList, group.key)
              IN  ~AllFailed(group.files) =>
                     /\ i # 0
                     /\ Len(seriesList[i].imageIds) = Len(ParsedOf(group.files))
    /\ TrialAssembled =>
          \A i \in 1..Len(groupedSeries) :
              Len(groupedSeries[i].instances)
                 = Len(TrialFilesOf(picked, groupedSeries[i].seriesKey))

\* C30: generateThumbnail does not throw: every parsed file is in its series
\* and processing reaches the last file, and every series has a thumbnail,
\* the placeholder when its first image does not decode.
C30_ThumbnailBoundary ==
    /\ EveryParsedFileKept
    /\ ViewerAssembled =>
          \A g \in 1..Len(fileData.seriesGroups) :
              LET group == fileData.seriesGroups[g]
                  i     == FindSeries(seriesList, group.key)
              IN  ~AllFailed(group.files) =>
                     seriesList[i].thumbnail
                        = ThumbnailOrPlaceholder(ParsedOf(group.files)[1])
    /\ TrialAssembled =>
          \A i \in 1..Len(groupedSeries) :
              groupedSeries[i].thumbnail
                 = ThumbnailOrPlaceholder(
                      TrialFilesOf(picked, groupedSeries[i].seriesKey)[1])

\* The part of C30 both components keep: no file is lost to a thumbnail that
\* fails; Trial's series get the placeholder, the Viewer's stay without
\* thumbnail.
C30_ThumbnailNeverThrows ==
    /\ EveryParsedFileKept
    /\ ViewerAssembled =>
          \A g \in 1..Len(fileData.seriesGroups) :
              LET group == fileData.seriesGroups[g]
                  i     == FindSeries(seriesList, group.key)
              IN  ~AllFailed(group.files) =>
                     seriesList[i].thumbnail
                        = IF ParsedOf(group.files)[1].pix THEN "image"
                          ELSE NoThumbnail
    /\ TrialAssembled =>
          \A i \in 1..Len(groupedSeries) :
              groupedSeries[i].thumbnail
                 = ThumbnailOrPlaceholder(
                      TrialFilesOf(picked, groupedSeries[i].seriesKey)[1])

\* The load updateStack starts for image index of the series uid of list.
LoadOf(list, uid, index) ==
    [imageIds |-> list[FindSeries(list, uid)].imageIds, index |-> index,
     attempts |-> 0,
     imageId  |-> ImageIdAt(list[FindSeries(list, uid)].imageIds, index),
     phase    |-> "decode", vpDead |-> FALSE, latest |-> TRUE,
     ready    |-> TRUE]

\* A series other than the first of the list is selected, which only
\* handleSeriesSelect does.
SelectedByUser ==
    /\ ViewerShown
    /\ selectedSeriesUID # NoUID
    /\ Len(seriesList) > 0
    /\ selectedSeriesUID # seriesList[1].seriesInstanceUID

\* A load of image 0 of the selected series is under way.
FirstImageRequested ==
    \E l \in DOMAIN loads :
        /\ l.imageIds = SelectedImageIds(Sess)
        /\ l.index = 0

\* C31 as stated: once a series other than the current one is selected and
\* nothing of it is loading or shown yet, a load of image 0 of that series
\* is issued, unless the session ends on the error screen.
C31_SelectLeadsToLoad ==
    (SelectedByUser /\ ~FirstImageRequested
                    /\ stack.imageIds # SelectedImageIds(Sess))
        ~> (FirstImageRequested \/ ~ViewerShown)

\* The part of C31 that holds: a handleSeriesSelect step for a non-empty
\* series of the list other than the selected one sets selectedSeriesUID to it and currentIndex to 0;
\* when the rendering engine exists and the viewport is ready the
\* stack-update effect of the same commit starts the load of image 0 of that
\* series, and in a session that is still attaching the step starts no load.
C31_SelectLoadsWhenReady ==
    [][\A i \in 1..Len(seriesList) :
          LET uid == seriesList[i].seriesInstanceUID IN
          (/\ ViewerShown
           /\ uid # selectedSeriesUID
           /\ selectedSeriesUID' = uid
           /\ HandleSeriesSelect(uid)) =>
              /\ currentIndex' = 0
              /\ seriesList' = seriesList
              /\ (renderingEngineRef /\ isViewportReady) =>
                     BagIn(LoadOf(seriesList, uid, 0), loads')
              /\ ~isViewportReady => loads' = loads]_vars

\* A series other than the first was selected in a ready session and image 0
\* of it is loading.
C31_LoadsWhenReadyWitness ==
    /\ SelectedByUser
    /\ isViewportReady
    /\ renderingEngineRef
    /\ BagIn(LoadOf(seriesList, selectedSeriesUID, 0), loads)

WindowApplied == viewportWindow # NoWindow

\* The window the three strategies give for the statistics st.
WindowRule(st) ==
    IF st.p99 > st.p1
    THEN [windowWidth  |-> Frac(st.p99 - st.p1, 1),
          windowCenter |-> Frac(st.p99 + st.p1, 2)]
    ELSE IF st.max > st.min
         THEN [windowWidth  |-> Frac(st.max - st.min, 1),
               windowCenter |-> Frac(st.max + st.min, 2)]
         ELSE [windowWidth  |-> Frac(1000, 1), windowCenter |-> Frac(500, 1)]

GroupFilesOf(uid) ==
    LET g == CHOOSE k \in 1..Len(fileData.seriesGroups) :
                 fileData.seriesGroups[k].key = uid
    IN  fileData.seriesGroups[g].files

\* C34: the series list is in ascending seriesNumber, and the seriesNumber
\* of a series is the series number (0020,0011) its files carry.
C34_ExplicitSeriesNumber ==
    ViewerAssembled =>
        /\ \A i, j \in 1..Len(seriesList) :
              i < j => seriesList[i].seriesNumber <= seriesList[j].seriesNumber
        /\ \A i \in 1..Len(seriesList) :
              \A k \in 1..Len(GroupFilesOf(seriesList[i].seriesInstanceUID)) :
                 LET file == GroupFilesOf(seriesList[i].seriesInstanceUID)[k]
                 IN  file.ok => seriesList[i].seriesNumber = file.seriesNumber

\* The part of C34 that holds: the series list is in ascending seriesNumber.
C34_AscendingSeriesNumber ==
    ViewerAssembled =>
        \A i, j \in 1..Len(seriesList) :
            i < j => seriesList[i].seriesNumber < seriesList[j].seriesNumber

\* C35: the seriesNumbers of the series the fileData-based Viewer emits are
\* exactly 1..n in the order of the list, n the number of emitted series,
\* also when a group between two emitted ones was dropped.
C35_SeriesNumbersDense ==
    ViewerAssembled =>
        \A i \in 1..Len(seriesList) : seriesList[i].seriesNumber = i

\* Three groups were read, the one in the middle was dropped because its
\* only file failed to parse, and two series were emitted.
C35_Witness ==
    /\ ViewerAssembled
    /\ Len(fileData.seriesGroups) = 3
    /\ AllFailed(fileData.seriesGroups[2].files)
    /\ Len(seriesList) = 2
    /\ seriesList[2].seriesInstanceUID = fileData.seriesGroups[3].key
    /\ seriesList[2].seriesNumber = 2

\* How often the file f occurs in the sequence files.
CountIn(f, files) == Cardinality({ i \in 1..Len(files) : files[i] = f })

\* How often the file f occurs in the groups.
CountInGroups(f, groups) ==
    LET c == [g \in 1..Len(groups) |-> CountIn(f, groups[g].files)]
    IN  SumOver(c, DOMAIN c)

\* C36: in both upload handlers the groups partition the accepted files.
\* The files passed on are the picked files with a .dcm name, in the picked
\* order; every one of them is in exactly one group, a rejected file is in
\* none, no group is empty and the groups hold nothing else.
C36_GroupsPartitionFiles ==
    (FolderUploadDone \/ FileUploadDone) =>
        LET groups == fileData.seriesGroups IN
        /\ fileData.files = FilterDcm(picked)
        /\ \A g \in 1..Len(groups) : groups[g].files # <<>>
        /\ \A g, h \in 1..Len(groups) : g # h => groups[g].key # groups[h].key
        /\ \A i \in 1..Len(picked) :
              CountInGroups(picked[i], groups) =
                  IF IsDcm(picked[i]) THEN CountIn(picked[i], picked) ELSE 0
        /\ \A g \in 1..Len(groups) : \A k \in 1..Len(groups[g].files) :
              CountIn(groups[g].files[k], fileData.files) > 0

\* A folder upload put two accepted files in one group.
C36_Witness ==
    /\ FolderUploadDone
    /\ Len(fileData.files) = 2
    /\ Len(fileData.seriesGroups) = 1
    /\ Len(fileData.seriesGroups[1].files) = 2

\* C37: when handleFolderUpload reports the upload type series, seriesGroups
\* has exactly one group and it holds all accepted files in their order,
\* also when files have no relative path.
C37_SeriesIsOneGroup ==
    (FolderUploadDone /\ fileData.uploadType = "series") =>
        /\ Len(fileData.seriesGroups) = 1
        /\ fileData.seriesGroups[1].files = FilterDcm(picked)

\* A series upload of two files of which one has no relative path.
C37_Witness ==
    /\ FolderUploadDone
    /\ fileData.uploadType = "series"
    /\ Len(fileData.files) = 2
    /\ \E i \in 1..2 : fileData.files[i].path = <<>>

\* The image the retry loop of the call l is at after l.attempts failures.
RetryImage(l) ==
    l.imageIds[((l.index + l.attempts) % Len(l.imageIds)) + 1]

\* The step is the continuation of the call l after its decode settled: l
\* is gone, and what has come is the call at its next attempt or at its
\* setStack, not l marked by a later render.
DecodeSettled(l) ==
    /\ l.phase = "decode"
    /\ CopiesIn(l, loads') < CopiesIn(l, loads)
    /\ \A m \in DOMAIN loads' :
          (CopiesIn(m, loads') > CopiesIn(m, loads) /\ m.phase = "decode")
              => m.attempts = l.attempts + 1

\* C38: the retry loop of updateStack never changes currentIndex.  A failed
\* decode leaves currentIndex, the metadata and the stack as they are; when
\* an attempt succeeds after k failures the metadata is the one of the image
\* at (index + k) mod len, index being the currentIndex of the call, and
\* setStack is called with the image list and that index; and a setStack
\* that resolves sets the stack at that index.
C38_RetryKeepsIndex ==
    [][\A l \in DOMAIN loads :
          /\ (DecodeSettled(l) /\ ~Decodable(metadataMapRef, l.imageId)) =>
                /\ currentIndex' = currentIndex
                /\ metadata' = metadata
                /\ stack' = stack
          /\ (DecodeSettled(l) /\ Decodable(metadataMapRef, l.imageId)) =>
                /\ currentIndex' = currentIndex
                /\ metadata' = MetaOf(metadataMapRef, RetryImage(l))
                /\ stack' = stack
                /\ \E m \in DOMAIN loads' :
                      /\ m.phase = "setStack"
                      /\ m.imageIds = l.imageIds
                      /\ m.index = l.index
                      /\ m.attempts = l.attempts
                      /\ CopiesIn(m, loads') > CopiesIn(m, loads)
          /\ (/\ l.phase = "setStack"
              /\ CopiesIn(l, loads') < CopiesIn(l, loads)
              /\ BagCardinality(loads') < BagCardinality(loads)
              /\ stack' # stack) =>
                /\ currentIndex' = currentIndex
                /\ stack' = [imageIds |-> l.imageIds, index |-> l.index]]_vars

\* The decode at currentIndex failed and a later attempt succeeded: setStack
\* was called at currentIndex and the metadata is the one of another image.
C38_Witness ==
    \E l \in DOMAIN loads :
        /\ l.phase = "setStack"
        /\ l.latest
        /\ l.attempts >= 1
        /\ l.index = currentIndex
        /\ metadata = MetaOf(metadataMapRef, RetryImage(l))
        /\ RetryImage(l) # ImageIdAt(l.imageIds, currentIndex)

\* a <= b for two lengths in px.
PxLessEq(a, b) == a.n * b.d <= b.n * a.d

\* The rectangle size fits the container scaled by 0.9, touches it in one
\* dimension at least, and has the aspect ratio columns : rows.
FitsScaledContainer(size, rows, columns, clientWidth, clientHeight) ==
    LET w == Px(ViewportScaleTenths * clientWidth, 10)
        h == Px(ViewportScaleTenths * clientHeight, 10)
    IN  /\ size.width # NotANumber
        /\ size.height # NotANumber
        /\ PxLessEq(size.width, w)
        /\ PxLessEq(size.height, h)
        /\ size.width = w \/ size.height = h
        /\ size.width.n * size.height.d * rows
               = size.height.n * size.width.d * columns

\* C39: for an image of at least one row and column and a container of
\* positive width and height, the size computation of either Viewer gives a
\* rectangle not wider than 0.9 of the container's width and not higher than
\* 0.9 of its height, equal to it in one dimension at least, with
\* width : height = columns : rows.
C39_SizeFitsContainer ==
    \A m \in {pixelModule, pixelModuleFiles} :
        (/\ m # NoPixelModule
         /\ m.rows >= 1
         /\ m.columns >= 1
         /\ container.clientWidth > 0
         /\ container.clientHeight > 0) =>
            /\ FitsScaledContainer(
                   ComputeSize(m.rows, m.columns,
                               container.clientWidth, container.clientHeight),
                   m.rows, m.columns,
                   container.clientWidth, container.clientHeight)
            /\ FitsScaledContainer(
                   ComputeSizeFiles(m.rows, m.columns,
                                    container.clientWidth, container.clientHeight),
                   m.rows, m.columns,
                   container.clientWidth, container.clientHeight)

\* updateSize has sized the element for an image twice as wide as high in a
\* container that is higher than wide: the width is 0.9 of the container's
\* and the height is below 0.9 of the container's.
C39_Witness ==
    /\ pixelModule # NoPixelModule
    /\ pixelModule.columns = 2 * pixelModule.rows
    /\ container.clientWidth = 100
    /\ container.clientHeight = 200
    /\ element = [width |-> Px(90, 1), height |-> Px(45, 1)]
    /\ element = ComputeSize(pixelModule.rows, pixelModule.columns,
                             container.clientWidth, container.clientHeight)

\* C40: in the single-file Trial, once the 60-second timer has rejected the
\* promise of a load, the later resolution or rejection of its setStack call
\* changes nothing: the error stays as it is and no render is performed for
\* that load.
C40_LateSettleChangesNothing ==
    [][singleLate'.settled > singleLate.settled
          => /\ singleError' = singleError
             /\ singleRenders' = singleRenders
             /\ singleEngineRef' = singleEngineRef
             /\ singlePending' = singlePending]_vars

\* A setStack call has settled after its timer fired: the error of the
\* timeout is still set, and no load was rendered.
C40_Witness ==
    singleLate.settled > 0 /\ singleError /\ singleRenders = 0

\* C16: an updateStack call whose decode fails goes on with the image at the
\* next index of the same series, and makes no more load attempts than the
\* series has images: the attempt in flight is at most the len-th (attempts
\* counts those that failed).
C16_RetryPolicy ==
    \A l \in DOMAIN loads :
        l.phase = "decode" =>
            /\ l.imageId =
                  l.imageIds[((l.index + l.attempts) % Len(l.imageIds)) + 1]
            /\ l.attempts + 1 <= Len(l.imageIds)

\* The image ids of the series of the list: what the cleanup written in
\* processFiles would revoke.
IdsOfSeriesList ==
    UNION { { seriesList[i].imageIds[k] : k \in 1..Len(seriesList[i].imageIds) } :
              i \in 1..Len(seriesList) }

\* C17: every object URL created for a file of the batch is recorded for
\* release (in the image ids of the series list of the Viewer, in
\* blobUrlsRef of Trial), and once the component is unmounted no URL it
\* created is left unrevoked.
C17_HandlesReleased ==
    /\ (viewerMounted /\ ViewerAssembled) => objectURLs \subseteq IdsOfSeriesList
    /\ trialMounted => trialObjectURLs \subseteq 1..blobUrlsRef
    /\ ~viewerMounted => objectURLs = {}
    /\ ~trialMounted => trialObjectURLs = {}

\* C20: in a tool group that exists exactly one tool is active, the tool
\* that the activeTool state names, and every other tool is not active: in
\* the tool group of the Viewer (where a tool other than the active one is
\* passive, or disabled as addTool left it) and in that of Trial (where the
\* others are passive).
C20_OneActiveTool ==
    /\ toolModes # NoToolGroup =>
          \A t \in Tools : (toolModes[t] = "Active") <=> (t = activeTool)
    /\ trialToolModes # NoToolGroup =>
          \A t \in TrialTools :
              /\ (trialToolModes[t] = "Active") <=> (t = trialActiveTool)
              /\ t # trialActiveTool => trialToolModes[t] = "Passive"

\* The key is none of the series list, or that of a series without images.
InvalidKey(seriesUID) ==
    LET i == FindSeries(seriesList, seriesUID) IN
    i = 0 \/ Len(seriesList[i].imageIds) = 0

\* C12: a call of handleSeriesSelect with a key that is unknown or denotes a
\* series without images sets the invalid-series error and leaves
\* selectedSeriesUID and currentIndex as they were.
C12_InvalidSelectRejected ==
    [][\A seriesUID \in SelectKeys :
          (ViewerShown /\ InvalidKey(seriesUID) /\ HandleSeriesSelect(seriesUID)) =>
              /\ error' = Err("Invalid or empty series selected.")
              /\ selectedSeriesUID' = selectedSeriesUID
              /\ currentIndex' = currentIndex]_vars

\* C12 witness: an unknown key was rejected while a series was selected and
\* an image after its first was current.
C12_Witness ==
    /\ error = Err("Invalid or empty series selected.")
    /\ FindSeries(seriesList, selectedSeriesUID) # 0
    /\ currentIndex > 0

\* ------------------------------------------------------------------ claims: window

\* The windows the two Viewers have applied to the image.
AppliedWindows == {voi, voiFiles} \ {NoVoi}

MonochromeWithoutWindow ==
    /\ imageRecord.windowCenter = <<>>
    /\ imageRecord.windowWidth = <<>>
    /\ IncludesMonochrome(imageRecord.photometricInterpretation)

\* C13: for a monochrome record without windowCenter and windowWidth the
\* window applied at display is center 0 / width 400 (the range -200..200)
\* when the modality is CT, and center 500 / width 1000 (the range 0..1000)
\* when it is MR.
C13_ModalityFallback ==
    \A w \in AppliedWindows :
        MonochromeWithoutWindow =>
            /\ imageRecord.modality = "CT" =>
                  /\ w.windowCenter = JsNumber(0)
                  /\ w.windowWidth = JsNumber(400)
                  /\ w.voiRange = [lower |-> JsNumber(-200),
                                    upper |-> JsNumber(200)]
            /\ imageRecord.modality = "MR" =>
                  /\ w.windowCenter = JsNumber(500)
                  /\ w.windowWidth = JsNumber(1000)
                  /\ w.voiRange = [lower |-> JsNumber(0),
                                    upper |-> JsNumber(1000)]

\* C14: whatever the tags of the record, malformed, zero or negative window
\* strings and any modality included, the window handed to the renderer has
\* a width above 0 and a finite center: the bounds of voiRange are finite
\* numbers, the lower below the upper.
C14_WindowOutput ==
    \A w \in AppliedWindows :
        /\ w.windowCenter.k = "number"
        /\ w.windowWidth.k = "number"
        /\ w.windowWidth.v > 0
        /\ w.voiRange.lower.k = "number"
        /\ w.voiRange.upper.k = "number"
        /\ w.voiRange.lower.v < w.voiRange.upper.v

\* Both window strings of the record parse to numbers, the width above 0.
OwnPairValid ==
    /\ ParseFloat(imageRecord.windowCenter).k = "number"
    /\ ParseFloat(imageRecord.windowWidth).k = "number"
    /\ ParseFloat(imageRecord.windowWidth).v > 0

OwnPair ==
    Window(ParseFloat(imageRecord.windowCenter),
           ParseFloat(imageRecord.windowWidth))

\* C15: when windowCenter and windowWidth of the record both parse to
\* numbers and the width is above 0, the window applied is that pair, also
\* for a center of 0; in every other case the window applied is not the
\* pair of the record.
C15_OwnPairRule ==
    \A w \in AppliedWindows :
        IF OwnPairValid THEN w = OwnPair ELSE w # OwnPair

====
